---- MODULE Spec2Model ----
(***************************************************************************)
(* Model of the OpenXT para-virtual input frontend (openxt-kbdfront.c,     *)
(* oxt_kbdif.h): the shared-page ring and its consumer (input_handler),    *)
(* the per-event handlers and the calls they make on the three input       *)
(* devices, and the XenBus connection code (oxtkbd_connect_backend,        *)
(* oxtkbd_disconnect_backend, oxtkbd_resume, oxtkbd_remove).               *)
(***************************************************************************)
EXTENDS Integers, Sequences, FiniteSets, TLC

(***************************************************************************)
(* Wire format (oxt_kbdif.h)                                               *)
(***************************************************************************)
OXT_KBD_TYPE_MOTION == 1
OXT_KBD_TYPE_KEY == 3
OXT_KBD_TYPE_POS == 4
OXT_KBD_TYPE_TOUCH_DOWN == 5
OXT_KBD_TYPE_TOUCH_UP == 6
OXT_KBD_TYPE_TOUCH_MOVE == 7
OXT_KBD_TYPE_TOUCH_FRAME == 8

KnownTypes ==
  { OXT_KBD_TYPE_MOTION, OXT_KBD_TYPE_KEY, OXT_KBD_TYPE_POS,
    OXT_KBD_TYPE_TOUCH_DOWN, OXT_KBD_TYPE_TOUCH_UP, OXT_KBD_TYPE_TOUCH_MOVE,
    OXT_KBD_TYPE_TOUCH_FRAME }

OXT_KBD_IN_EVENT_SIZE == 40
OXT_KBD_IN_RING_SIZE == 2048
\* The ring length the indexing macro uses: 2048 / 40 = 51 slots.
OXT_KBD_IN_RING_LEN == OXT_KBD_IN_RING_SIZE \div OXT_KBD_IN_EVENT_SIZE

\* A 32-bit word (__u32, uint32_t, int32_t) is held as the integer in
\* -2^31 .. 2^31-1 that has the same 32 bits: the __u32 value 0xFFFFFFFF is
\* held as -1, and counting up from it gives 0.

\* cons++ on a __u32.
Inc32(v) == IF v = 2147483647 THEN (0 - 2147483647) - 1 ELSE v + 1

\* p - c on __u32 values: how many increments lead from c to p.
Dist32(c, p) ==
  IF p >= c THEN p - c ELSE ((p + 2147483647) + 1) + (2147483647 - c) + 1

\* c + n on a __u32 c, for 0 <= n < 2^31.
Add32(c, n) ==
  IF c <= 2147483647 - n THEN c + n
  ELSE ((c - 2147483647) - 1) + ((n - 2147483647) - 1)

\* idx % n for a __u32 idx and 0 < n < 2^16: the unsigned value of a negative v
\* is v + 2^32.
U32Mod(v, n) ==
  IF v >= 0 THEN v % n
  ELSE ((v % n) + (((65536 % n) * (65536 % n)) % n)) % n

\* The least value of an __s32 (rel_z), -2^31.
S32_MIN == (0 - 2147483647) - 1

\* (mutant) the wire value passed on without negation.
Neg32_Identity(z) == z

\* Two's-complement int32 negation, as the kernel build (-fno-strict-overflow)
\* computes -x for an int32_t x.
Neg32(z) == IF z = S32_MIN THEN z ELSE 0 - z

\* OXT_KBD_IN_RING_REF(page, idx): the slot a __u32 cursor indexes.
OXT_KBD_IN_RING_REF(idx) == U32Mod(idx, OXT_KBD_IN_RING_LEN)

(***************************************************************************)
(* union oxtkbd_in_event, by its memory layout: the tag at offset 0, the   *)
(* byte at offset 1 (key.pressed) and the 32-bit words at offsets 4, 8 and *)
(* 12.  Every variant is a view of the same bytes:                         *)
(*   motion: rel_x = w4, rel_y = w8, rel_z = w12                           *)
(*   key:    pressed = b1, keycode = w4 (unsigned)                         *)
(*   pos:    abs_x = w4, abs_y = w8, rel_z = w12                           *)
(*   touch:  id = w4, abs_x = w8, abs_y = w12                              *)
(***************************************************************************)
Event(t, p, a, b, c) == [type |-> t, b1 |-> p, w4 |-> a, w8 |-> b, w12 |-> c]
\* A slot of the zeroed page.
ZeroEvent == Event(0, 0, 0, 0, 0)

MotionEvent(x, y, z) == Event(OXT_KBD_TYPE_MOTION, 0, x, y, z)
KeyEvent(code, pressed) == Event(OXT_KBD_TYPE_KEY, pressed, code, 0, 0)
PosEvent(x, y, z) == Event(OXT_KBD_TYPE_POS, 0, x, y, z)
TouchDownEvent(id, x, y) == Event(OXT_KBD_TYPE_TOUCH_DOWN, 0, id, x, y)
TouchMoveEvent(id, x, y) == Event(OXT_KBD_TYPE_TOUCH_MOVE, 0, id, x, y)
TouchUpEvent(id) == Event(OXT_KBD_TYPE_TOUCH_UP, 0, id, 0, 0)
TouchFrameEvent == Event(OXT_KBD_TYPE_TOUCH_FRAME, 0, 0, 0, 0)

(***************************************************************************)
(* The input devices (sinks).  A call on a device is recorded as           *)
(* [dev, op, code, arg, value].                                            *)
(***************************************************************************)
Op(d, o, c, v) == [dev |-> d, op |-> o, code |-> c, arg |-> 0, value |-> v]
\* input_report_key(dev, keycode, pressed).
KeyOp(d, keycode, pressed) ==
  [dev |-> d, op |-> "input_report_key", code |-> "EV_KEY", arg |-> keycode,
   value |-> pressed]

\* Key ranges the devices declare (linux/input.h values).
KEY_ESC == 1
KEY_UNKNOWN == 240
KEY_OK == 352
KEY_MAX == 767
KEY_CNT == 768
BTN_LEFT == 272
BTN_TASK == 279

\* __allocate_keyboard_device: the keybit set of info->kbd.
KbdKeybit == (KEY_ESC .. (KEY_UNKNOWN - 1)) \cup (KEY_OK .. (KEY_MAX - 1))
\* __allocate_pointer_device(false, false): the keybit set of info->ptr.
PtrKeybit == BTN_LEFT .. BTN_TASK

\* input_mt_init_slots(ptr, 10, ...): the tracking slots of the absolute pointer.
MT_SLOTS == 10

\* The multitouch state the input core keeps for info->absolute_pointer: the
\* slot selected by the last accepted input_mt_slot, and which slots are
\* active.
MtInit == [slot |-> 0, active |-> [s \in 0 .. (MT_SLOTS - 1) |-> FALSE]]

\* The effect of one call on that state: input_mt_slot selects a slot when the
\* value names one and is dropped otherwise; input_mt_report_slot_state marks
\* the selected slot.
MtApply(m, o) ==
  IF o.dev # "absolute_pointer" THEN m
  ELSE IF o.op = "input_mt_slot"
    THEN IF o.value >= 0 /\ o.value < MT_SLOTS
         THEN [m EXCEPT !.slot = o.value] ELSE m
  ELSE IF o.op = "input_mt_report_slot_state"
    THEN [m EXCEPT !.active[m.slot] = (o.value = 1)]
  ELSE m

RECURSIVE MtApplyAll(_, _)
MtApplyAll(m, os) ==
  IF os = <<>> THEN m ELSE MtApplyAll(MtApply(m, Head(os)), Tail(os))

(***************************************************************************)
(* The event handlers: each yields the calls it makes, in order.  A handler *)
(* reads the event through a pointer into the shared page, one field at a  *)
(* time, while the backend may store into the same slot: its parameter     *)
(* event is the sequence of what these reads see, event[k] being the       *)
(* content of the slot at the k-th read the handler makes.                 *)
(***************************************************************************)
\* The reads of one loop iteration: the two reads of the tag by the switch
\* and the reads of the handler called, __handle_touch_movement making up to
\* six.
Reads == 1 .. 8

\* The reads when the slot holds e throughout.
Whole(e) == [k \in Reads |-> e]

\* The reads of one iteration when the slot held versions[1], then
\* versions[2], ...: each read sees the version of its moment, in the order
\* of the reads.
Views(versions) ==
  { [k \in Reads |-> versions[f[k]]] :
      f \in { g \in [Reads -> 1 .. Len(versions)] :
                \A k \in Reads : k + 1 \in Reads => g[k] <= g[k + 1] } }

__handle_relative_motion(event) ==
  << Op("ptr", "input_report_rel", "REL_X", event[1].w4),
     Op("ptr", "input_report_rel", "REL_Y", event[2].w8) >>
  \o (IF event[3].w12 # 0
      THEN << Op("ptr", "input_report_rel", "REL_WHEEL", Neg32(event[4].w12)) >>
      ELSE << >>)
  \o << Op("ptr", "input_sync", "SYN_REPORT", 0) >>

__handle_absolute_motion(event) ==
  << Op("absolute_pointer", "input_report_abs", "ABS_X", event[1].w4),
     Op("absolute_pointer", "input_report_abs", "ABS_Y", event[2].w8) >>
  \o (IF event[3].w12 # 0
      THEN << Op("absolute_pointer", "input_report_rel", "REL_WHEEL",
                 Neg32(event[4].w12)) >>
      ELSE << >>)
  \o << Op("absolute_pointer", "input_sync", "SYN_REPORT", 0) >>

__handle_touch_down(event) ==
  << Op("absolute_pointer", "input_mt_slot", "ABS_MT_SLOT", event[1].w4),
     Op("absolute_pointer", "input_mt_report_slot_state", "MT_TOOL_FINGER", 1) >>

\* The reads follow the flags: the id when report_slot, the two coordinates,
\* and when send_abs_event the id and, for id 0, the coordinates again.
__handle_touch_movement(event, report_slot, send_abs_event) ==
  LET n == IF report_slot THEN 1 ELSE 0
  IN (IF report_slot
      THEN << Op("absolute_pointer", "input_mt_slot", "ABS_MT_SLOT",
                 event[1].w4) >>
      ELSE << >>)
     \o << Op("absolute_pointer", "input_report_abs", "ABS_MT_POSITION_X",
              event[n + 1].w8),
           Op("absolute_pointer", "input_report_abs", "ABS_MT_POSITION_Y",
              event[n + 2].w12) >>
     \o (IF send_abs_event /\ event[n + 3].w4 = 0
         THEN << Op("absolute_pointer", "input_report_abs", "ABS_X",
                    event[n + 4].w8),
                 Op("absolute_pointer", "input_report_abs", "ABS_Y",
                    event[n + 5].w12) >>
         ELSE << >>)

\* (mutant) the release reported as a press.
__handle_touch_up_pressed(event) ==
  << Op("absolute_pointer", "input_mt_slot", "ABS_MT_SLOT", event[1].w4),
     Op("absolute_pointer", "input_mt_report_slot_state", "MT_TOOL_FINGER", 1) >>

__handle_touch_up(event) ==
  << Op("absolute_pointer", "input_mt_slot", "ABS_MT_SLOT", event[1].w4),
     Op("absolute_pointer", "input_mt_report_slot_state", "MT_TOOL_FINGER", 0) >>

__handle_touch_framing(event) ==
  << Op("absolute_pointer", "input_mt_sync_frame", "SYN_MT_REPORT", 0),
     Op("absolute_pointer", "input_sync", "SYN_REPORT", 0) >>

\* key.keycode is the unsigned word at offset 4 of a slot's content.
KeyCode(e) == e.w4

\* Whether an unsigned keycode lies past the KEY_CNT bits of a keybit bitmap.
PastKeybit(keycode) == keycode < 0 \/ keycode >= KEY_CNT

\* What test_bit(keycode, dev->keybit) can do.  A keycode within the bitmap
\* reads its bit.  A keycode past the bitmap reads memory that is not part of
\* it: the read finds a set bit or a clear bit, or, when that memory is not
\* mapped, faults; which of these depends on the build and on the keycode.
TestBitOutcome(keycode) ==
  IF PastKeybit(keycode) THEN { "set", "clear", "fault" } ELSE { "bitmap" }

\* test_bit(keycode, dev->keybit) when it returns, oob being the outcome of
\* a read past the bitmap.
test_bit(keycode, keybit, oob) ==
  IF PastKeybit(keycode) THEN oob = "set" ELSE keycode \in keybit

\* The switch of input_handler (line 244) as the kernel's build compiles it:
\* a jump table over the tags 0 .. OXT_KBD_TYPE_TOUCH_FRAME.  event->type is
\* loaded from the shared page once to compare it with the table's last tag,
\* and, when it is within the table, once more to index the table (a build
\* that loads it once sees the same content at both reads).
SwitchTable == 0 .. OXT_KBD_TYPE_TOUCH_FRAME

\* The tag the switch acts on, event[1] and event[2] being what its two reads
\* see: a tag past the table at the first read matches no case; otherwise the
\* second read selects the case.
SwitchTag(event) ==
  IF event[1].type \in SwitchTable THEN event[2].type ELSE event[1].type

\* The content of the slot at the read that selected the case.
Switched(event) ==
  IF event[1].type \in SwitchTable THEN event[2] ELSE event[1]

\* Whether the switch jumps past its table: the tag was within the table when
\* compared and is past it when it indexes the table.  The jump goes to an
\* address that is no case of the switch, and input_handler is killed there.
TagFault(event) ==
  /\ event[1].type \in SwitchTable
  /\ event[2].type \notin SwitchTable

\* The outcomes the two test_bit reads of a key event can have, for the reads
\* of one iteration (the first two being the switch's).
TestBitOutcomes(event) ==
  IF SwitchTag(event) = OXT_KBD_TYPE_KEY
  THEN TestBitOutcome(KeyCode(event[3])) \X TestBitOutcome(KeyCode(event[4]))
  ELSE { << "bitmap", "bitmap" >> }

\* Whether the iteration faults, in the switch or in one of the two test_bit
\* reads: input_handler is killed there, having made none of the calls of
\* this event, and does not return.
Faults(event, oob) ==
  \/ TagFault(event)
  \/ /\ SwitchTag(event) = OXT_KBD_TYPE_KEY
     /\ oob[1] = "fault" \/ oob[2] = "fault"

\* The reads of a key event, moved to the places at which
\* __handle_key_or_button_press takes them (3, 4 and 5 the keycode of the two
\* test_bit calls and of the report, 6 key.pressed), key.pressed being the
\* k-th read of the iteration and the keycode being read at the other three.
PressedAt(event, k) ==
  [j \in Reads |->
     IF j = 6 THEN event[k]
     ELSE IF j \in 3 .. 5 /\ j >= k THEN event[j + 1]
     ELSE event[j]]

\* The slot is plain memory to the build, which loads key.pressed where it
\* chooses: last, as the arguments of input_report_key are written; before
\* the keycode of the report; or hoisted above the test_bit calls, as the
\* optimised builds do, which load key.pressed first and the keycode once
\* after it (the three reads of the keycode then see the same content).
ArgOrders(event) ==
  IF SwitchTag(event) = OXT_KBD_TYPE_KEY
  THEN { PressedAt(event, k) : k \in 3 .. 6 }
  ELSE { event }

\* The keycode is read by each test_bit, and again for the report or the
\* warning.
__handle_key_or_button_press(event, oob) ==
  LET kbd_hit == test_bit(KeyCode(event[1]), KbdKeybit, oob[1])
      ptr_hit == test_bit(KeyCode(event[2]), PtrKeybit, oob[2])
      dev == IF ptr_hit THEN "ptr" ELSE IF kbd_hit THEN "kbd" ELSE "NULL"
  IN IF dev # "NULL"
     THEN << KeyOp(dev, KeyCode(event[3]), event[4].b1),
             Op(dev, "input_sync", "SYN_REPORT", 0) >>
     ELSE << [dev |-> "log", op |-> "pr_warning", code |-> "unhandled keycode",
              arg |-> KeyCode(event[3]), value |-> 0] >>

\* (mutant) a default case that reports the unknown tag.
Dispatch_DefaultWarns(event, oob) ==
  LET type == SwitchTag(event)
      reads == Tail(Tail(event))
  IN CASE type = OXT_KBD_TYPE_MOTION -> __handle_relative_motion(reads)
       [] type = OXT_KBD_TYPE_KEY -> __handle_key_or_button_press(reads, oob)
       [] type = OXT_KBD_TYPE_POS -> __handle_absolute_motion(reads)
       [] type = OXT_KBD_TYPE_TOUCH_DOWN ->
            __handle_touch_down(reads)
            \o __handle_touch_movement(Tail(reads), FALSE, FALSE)
       [] type = OXT_KBD_TYPE_TOUCH_UP -> __handle_touch_up(reads)
       [] type = OXT_KBD_TYPE_TOUCH_MOVE ->
            __handle_touch_movement(reads, TRUE, FALSE)
       [] type = OXT_KBD_TYPE_TOUCH_FRAME -> __handle_touch_framing(reads)
       [] OTHER -> << [dev |-> "log", op |-> "pr_warning", code |-> "unknown type",
                       arg |-> type, value |-> 0] >>

\* The switch of input_handler when it does not fault: the calls one event
\* causes, event[1] and event[2] being what the switch reads and the rest
\* what the handler called reads.  An event whose tag matches no case causes
\* none.
Dispatch(event, oob) ==
  LET type == SwitchTag(event)
      reads == Tail(Tail(event))
  IN CASE type = OXT_KBD_TYPE_MOTION -> __handle_relative_motion(reads)
       [] type = OXT_KBD_TYPE_KEY -> __handle_key_or_button_press(reads, oob)
       [] type = OXT_KBD_TYPE_POS -> __handle_absolute_motion(reads)
       [] type = OXT_KBD_TYPE_TOUCH_DOWN ->
            __handle_touch_down(reads)
            \o __handle_touch_movement(Tail(reads), FALSE, FALSE)
       [] type = OXT_KBD_TYPE_TOUCH_UP -> __handle_touch_up(reads)
       [] type = OXT_KBD_TYPE_TOUCH_MOVE ->
            __handle_touch_movement(reads, TRUE, FALSE)
       [] type = OXT_KBD_TYPE_TOUCH_FRAME -> __handle_touch_framing(reads)
       [] OTHER -> << >>

(***************************************************************************)
(* State                                                                   *)
(***************************************************************************)
VARIABLES
  in_prod,     \* page->in_prod
  in_cons,     \* page->in_cons
  ring,        \* the slots of the shared page
  gen,         \* how many times the page has been zeroed (oxtkbd_resume)
  ring_gen,    \* per slot: the value of gen when its content was stored
  wrote,       \* the events the backend stored since the page was last zeroed
  base,        \* the cursor at which wrote[1] was stored
  stale,       \* what the slot input_handler is at held before each store the
               \* backend made to it since the handler's last step
  pc,          \* input_handler: "idle" (not running), "loop", "notify", or
               \* "fault" (killed by a faulting read)
  prod,        \* input_handler's local prod
  cons,        \* input_handler's local cons
  d_start,     \* page->in_cons when the last non-empty drain began
  d_gen,       \* gen when the last non-empty drain began
  dispatched,  \* the events that drain has dispatched, in order
  d_slotgen,   \* per dispatched event: ring_gen of the slot it was read from
  ops,         \* per dispatched event: the device calls it caused
  notified,    \* the irq values that drain passed to notify_remote_via_irq
  mt,          \* multitouch state of info->absolute_pointer
  irq,         \* info->irq
  gref,        \* info->gref
  bound        \* whether input_handler is bound to the event channel

pageVars == << in_prod, in_cons, ring, gen, ring_gen, wrote, base, stale >>
handlerVars == << pc, prod, cons >>
logVars == << d_start, d_gen, dispatched, d_slotgen, ops, notified >>
infoVars == << irq, gref, bound >>

VARIABLES
  granted,        \* whether the page is granted to the backend
  evtchn,         \* whether connect's event channel is allocated
  txn,            \* whether a XenStore transaction is open
  store,          \* the keys committed to the device's XenStore node
  dev_state,      \* dev->state, the frontend's own XenBus state
  life,           \* "live" (probed) or "removed" (oxtkbd_remove has run)
  c_pc,           \* oxtkbd_connect_backend: "none" (not running) or its next step
  caller,         \* who called it: "probe" or "resume"
  c_log,          \* the calls the current or last oxtkbd_connect_backend made
  ret,            \* what the last oxtkbd_connect_backend returned
  zeroed_pending  \* how many undrained events the last memset of the page destroyed

connVars ==
  << granted, evtchn, txn, store, dev_state, life, c_pc, caller, c_log, ret,
     zeroed_pending >>

VARIABLES
  b_state,     \* the backend_state of the last oxtkbd_backend_changed call
  b_self,      \* dev->state when that call began
  b_store,     \* what the backend's XenStore node held during that call
  b_log,       \* the calls that oxtkbd_backend_changed call made
  b_pc,        \* oxtkbd_backend_changed: "none" (not running) or its next step
  b_abs,       \* absmax when that call began
  absmax,      \* per input device and axis: the maximum input_set_abs_params set
  t_log,       \* the calls of the last teardown (oxtkbd_resume, oxtkbd_remove)
  page_freed,  \* whether free_page(info->page) has been called
  devs,        \* the input devices registered: info->kbd, ptr, absolute_pointer
  p_log        \* the calls oxtkbd_probe made before oxtkbd_connect_backend

fsmVars == << b_state, b_self, b_store, b_log, b_pc, b_abs, absmax >>
tearVars == << t_log, page_freed, devs, p_log >>

VARIABLES
  pending,     \* whether a notification is pending on input_handler's channel
  owed         \* whether the backend has yet to notify its last store

chanVars == << pending, owed >>

Slots == 0 .. (OXT_KBD_IN_RING_LEN - 1)

\* The page as the frontend last zeroed it (__GFP_ZERO in oxtkbd_probe, memset
\* in oxtkbd_resume), the backend having since stored and the frontend
\* consumed c0 all-zero events.
PageInit(c0) ==
  /\ in_prod = c0
  /\ in_cons = c0
  /\ ring = [s \in Slots |-> ZeroEvent]
  /\ gen = 0
  /\ ring_gen = [s \in Slots |-> 0]
  /\ wrote = << >>
  /\ base = c0
  /\ stale = << >>

\* The default bounds of the absolute axes (xen/interface/io/fbif.h).
XENFB_WIDTH == 800
XENFB_HEIGHT == 600

AbsAxes == { "ABS_X", "ABS_Y", "ABS_MT_POSITION_X", "ABS_MT_POSITION_Y" }

\* The maxima __allocate_keyboard_device and __allocate_pointer_device set:
\* none on the keyboard and on the relative pointer (0 stands for an axis the
\* device does not have), the frame buffer's default size on the absolute
\* pointer.
AbsInit ==
  [d \in { "kbd", "ptr", "absolute_pointer" } |->
     [a \in AbsAxes |->
        IF d # "absolute_pointer" THEN 0
        ELSE IF a \in { "ABS_X", "ABS_MT_POSITION_X" } THEN XENFB_WIDTH
        ELSE XENFB_HEIGHT]]

\* The maxima while no device exists.
AbsNone ==
  [d \in { "kbd", "ptr", "absolute_pointer" } |-> [a \in AbsAxes |-> 0]]

\* A backend node that publishes nothing.
NoStore == [feature |-> FALSE, width |-> << >>, height |-> << >>]

\* Before the first oxtkbd_backend_changed call.
FsmInit ==
  /\ b_state = "none"
  /\ b_self = "none"
  /\ b_store = NoStore
  /\ b_log = << >>
  /\ b_pc = "none"
  /\ b_abs = AbsInit
  /\ absmax = AbsInit

\* After the backend went to InitWait and the frontend followed to Connected.
FsmConnected ==
  /\ b_state = "InitWait"
  /\ b_self = "Initialised"
  /\ b_store = NoStore
  /\ b_log = << "xenbus_switch_state:Connected" >>
  /\ b_pc = "none"
  /\ b_abs = AbsInit
  /\ absmax = AbsInit

\* The three devices of info, in the order oxtkbd_probe creates them.
DevOrder == << "kbd", "ptr", "absolute_pointer" >>
AllDevs == { DevOrder[n] : n \in 1 .. Len(DevOrder) }

\* The calls of one __allocate_keyboard_device or __allocate_pointer_device
\* (lines 301-327, 340-395) for device d, by outcome.
AllocateCalls(d, outcome) ==
  CASE outcome = "ok" ->
         << "input_allocate_device:" \o d, "input_register_device:" \o d >>
    [] outcome = "allocate_fail" ->
         << "input_allocate_device:" \o d \o ":fail" >>
    [] outcome = "register_fail" ->
         << "input_allocate_device:" \o d,
            "input_register_device:" \o d \o ":fail",
            "input_free_device:" \o d >>

\* The calls of an oxtkbd_probe in which no allocation fails (lines 415-450).
ProbeCalls ==
  << "kzalloc", "__get_free_page" >>
  \o AllocateCalls("kbd", "ok") \o AllocateCalls("ptr", "ok")
  \o AllocateCalls("absolute_pointer", "ok")

\* After such a probe, before any teardown.
TearInit ==
  /\ t_log = << >>
  /\ page_freed = FALSE
  /\ devs = AllDevs
  /\ p_log = ProbeCalls

\* No notification has been raised.
ChanInit ==
  /\ pending = FALSE
  /\ owed = FALSE

HandlerInit ==
  /\ pc = "idle"
  /\ prod = 0
  /\ cons = 0
  /\ d_start = 0
  /\ d_gen = 0
  /\ dispatched = << >>
  /\ d_slotgen = << >>
  /\ ops = << >>
  /\ notified = << >>
  /\ mt = MtInit

(***************************************************************************)
(* The backend (producer): stores one event in the slot its cursor indexes *)
(* and then advances page->in_prod.  A store into the slot that            *)
(* input_handler is reading falls between two reads of its iteration.     *)
(***************************************************************************)
Produce(e) ==
  /\ ring' = [ring EXCEPT ![OXT_KBD_IN_RING_REF(in_prod)] = e]
  /\ stale' = IF /\ pc = "loop"
                 /\ cons # prod
                 /\ OXT_KBD_IN_RING_REF(in_prod) = OXT_KBD_IN_RING_REF(cons)
              THEN Append(stale, ring[OXT_KBD_IN_RING_REF(in_prod)])
              ELSE stale
  /\ ring_gen' = [ring_gen EXCEPT ![OXT_KBD_IN_RING_REF(in_prod)] = gen]
  /\ in_prod' = Inc32(in_prod)
  /\ wrote' = Append(wrote, e)
  /\ UNCHANGED << in_cons, gen, base >>

(***************************************************************************)
(* input_handler                                                           *)
(***************************************************************************)
\* (mutant) no early return: the loop is entered even with nothing to drain.
HandlerEntry_NoFastPath ==
  /\ pc = "idle"
  /\ bound
  /\ pc' = "loop"
  /\ prod' = in_prod
  /\ cons' = in_cons
  /\ d_start' = in_cons
  /\ d_gen' = gen
  /\ dispatched' = << >>
  /\ d_slotgen' = << >>
  /\ ops' = << >>
  /\ notified' = << >>
  /\ pending' = FALSE
  /\ UNCHANGED << pageVars, mt, infoVars, connVars, fsmVars,
                  tearVars, owed >>

\* (mutant) an overrun masked: at most one ring of events is processed.
HandlerEntry_ClampToRing ==
  /\ pc = "idle"
  /\ bound
  /\ IF in_prod = in_cons
     THEN UNCHANGED << handlerVars, logVars >>
     ELSE /\ pc' = "loop"
          /\ prod' = in_prod
          /\ cons' = IF Dist32(in_cons, in_prod) > OXT_KBD_IN_RING_LEN
                     THEN Add32(in_cons,
                                Dist32(in_cons, in_prod) - OXT_KBD_IN_RING_LEN)
                     ELSE in_cons
          /\ d_start' = in_cons
          /\ d_gen' = gen
          /\ dispatched' = << >>
          /\ d_slotgen' = << >>
          /\ ops' = << >>
          /\ notified' = << >>
  /\ pending' = FALSE
  /\ UNCHANGED << pageVars, mt, infoVars, connVars, fsmVars,
                  tearVars, owed >>

\* Lines 229-238: read the producer cursor; when it equals the consumer
\* cursor return at once, else enter the loop at page->in_cons.
HandlerEntry ==
  /\ pc = "idle"
  /\ bound
  /\ IF in_prod = in_cons
     THEN UNCHANGED << handlerVars, logVars >>
     ELSE /\ pc' = "loop"
          /\ prod' = in_prod
          /\ cons' = in_cons
          /\ d_start' = in_cons
          /\ d_gen' = gen
          /\ dispatched' = << >>
          /\ d_slotgen' = << >>
          /\ ops' = << >>
          /\ notified' = << >>
  /\ pending' = FALSE
  /\ UNCHANGED << pageVars, mt, infoVars, connVars, fsmVars,
                  tearVars, owed >>

\* Lines 238-276, one iteration of the loop, next being the value of cons
\* after it: the reads of the slot, the switch and the handler it calls.
\* When the switch or a read of the handler faults, input_handler ends there.
Iteration(next) ==
  /\ pc = "loop"
  /\ cons # prod
  /\ \E view \in Views(stale \o << ring[OXT_KBD_IN_RING_REF(cons)] >>) :
       \E event \in ArgOrders(view) : \E oob \in TestBitOutcomes(event) :
         IF Faults(event, oob)
         THEN /\ pc' = "fault"
              /\ UNCHANGED << cons, dispatched, d_slotgen, ops, mt >>
         ELSE /\ dispatched' = Append(dispatched, Switched(event))
              /\ d_slotgen' =
                   Append(d_slotgen, ring_gen[OXT_KBD_IN_RING_REF(cons)])
              /\ ops' = Append(ops, Dispatch(event, oob))
              /\ mt' = MtApplyAll(mt, Dispatch(event, oob))
              /\ cons' = next
              /\ pc' = pc
  /\ stale' = << >>
  /\ UNCHANGED << in_prod, ring, gen, ring_gen, wrote, base, prod, d_start,
                  d_gen, notified, infoVars, connVars, fsmVars, tearVars,
                  chanVars >>

\* Lines 238-276: one iteration of the loop, and cons++.
HandlerLoop ==
  /\ Iteration(Inc32(cons))
  /\ UNCHANGED in_cons

\* Whether a is below b as unsigned 32-bit values.
ULess(a, b) == IF (a >= 0) = (b >= 0) THEN a < b ELSE b < 0

\* (mutant) the loop runs while cons < prod instead of cons != prod: it is
\* left as soon as cons is not below prod.
HandlerExit_UnsignedLess ==
  /\ pc = "loop"
  /\ ~ ULess(cons, prod)
  /\ in_cons' = cons
  /\ pc' = "notify"
  /\ UNCHANGED << in_prod, ring, gen, ring_gen, wrote, base, stale, prod, cons,
                  logVars, mt, infoVars, connVars, fsmVars, tearVars, chanVars >>

\* Lines 276-280: the loop is left when cons has reached the captured prod;
\* after the barrier the consumer cursor is published.
HandlerExit ==
  /\ pc = "loop"
  /\ cons = prod
  /\ in_cons' = cons
  /\ pc' = "notify"
  /\ UNCHANGED << in_prod, ring, gen, ring_gen, wrote, base, stale, prod, cons,
                  logVars, mt, infoVars, connVars, fsmVars, tearVars, chanVars >>

\* Lines 282-285: notify the backend through info->irq, as it is now, and
\* return.
HandlerNotify ==
  /\ pc = "notify"
  /\ notified' = Append(notified, irq)
  /\ pc' = "idle"
  /\ UNCHANGED << pageVars, prod, cons, d_start, d_gen, dispatched,
                  d_slotgen, ops, mt, infoVars, connVars, fsmVars, tearVars, chanVars >>


vars ==
  << pageVars, handlerVars, logVars, mt, infoVars, connVars, fsmVars, tearVars, chanVars >>

\* The k-th event of a burst (k counted from 0): distinct for distinct k.
BurstEvent(k) == MotionEvent(k + 1, 0 - (k + 1), k % 2)
(***************************************************************************)
(* The XenBus side: oxtkbd_connect_backend, oxtkbd_disconnect_backend,     *)
(* oxtkbd_resume, and the tail of oxtkbd_probe.                            *)
(***************************************************************************)
EAGAIN == 11
\* Some other errno (ENOMEM), for the calls that fail.
EFAIL == 12
\* The handles the calls return on success.
GREF == 9
IRQ == 7

TxnKeys == << "page-ref", "page-gref", "event-channel" >>

\* The calls of one transaction attempt whose commit returns outcome.
TxnAttempt(outcome) ==
  << "xenbus_transaction_start", "xenbus_printf:page-ref",
     "xenbus_printf:page-gref", "xenbus_printf:event-channel",
     "xenbus_transaction_end:" \o outcome >>

\* The return of oxtkbd_connect_backend to its caller: oxtkbd_probe goes to
\* its error: label on failure (ProbeError below), oxtkbd_resume returns the
\* result.
Return(r) ==
  /\ ret' = r
  /\ c_pc' = IF caller = "probe" /\ r < 0 THEN "probe_error" ELSE "none"
  /\ life' = life

\* error_grant: (lines 616-619)
ErrorGrant(r, log) ==
  /\ c_log' = log \o << "gnttab_end_foreign_access" >>
  /\ gref' = 0 - 1
  /\ granted' = FALSE
  /\ Return(r)

\* error_evtchan: (lines 614-615) and on
ErrorEvtchan(r, log) ==
  /\ evtchn' = FALSE
  /\ ErrorGrant(r, log \o << "xenbus_free_evtchn" >>)

\* Lines 537-540
ConnectGrant ==
  /\ c_pc = "grant"
  /\ \/ /\ gref' = GREF
        /\ granted' = TRUE
        /\ c_log' = Append(c_log, "gnttab_grant_foreign_access")
        /\ c_pc' = "evtchn"
        /\ UNCHANGED << ret, life >>
     \/ /\ c_log' = Append(c_log, "gnttab_grant_foreign_access:fail")
        /\ Return(0 - EFAIL)
        /\ UNCHANGED << gref, granted >>
  /\ UNCHANGED << fsmVars, tearVars, chanVars, pageVars, handlerVars, logVars,
                  mt, irq, bound, evtchn, txn,
                  store, dev_state, caller, zeroed_pending >>

\* Lines 544-546
ConnectEvtchn ==
  /\ c_pc = "evtchn"
  /\ \/ /\ evtchn' = TRUE
        /\ c_log' = Append(c_log, "xenbus_alloc_evtchn")
        /\ c_pc' = "bind"
        /\ UNCHANGED << gref, granted, ret, life >>
     \/ /\ ErrorGrant(0 - EFAIL, Append(c_log, "xenbus_alloc_evtchn:fail"))
        /\ UNCHANGED evtchn
  /\ UNCHANGED << fsmVars, tearVars, chanVars, pageVars, handlerVars, logVars,
                  mt, irq, bound, txn, store,
                  dev_state, caller, zeroed_pending >>

\* Lines 550-554: from here on input_handler is bound and may run.
ConnectBind ==
  /\ c_pc = "bind"
  /\ \/ /\ bound' = TRUE
        /\ c_log' = Append(c_log, "bind_evtchn_to_irqhandler")
        /\ c_pc' = "set_irq"
        /\ UNCHANGED << gref, granted, evtchn, ret, life >>
     \/ /\ ErrorEvtchan(0 - EFAIL,
                        c_log \o << "bind_evtchn_to_irqhandler:fail",
                                    "xenbus_dev_fatal" >>)
        /\ UNCHANGED bound
  /\ UNCHANGED << fsmVars, tearVars, chanVars, pageVars, handlerVars, logVars,
                  mt, irq, txn, store,
                  dev_state, caller, zeroed_pending >>

\* Line 555
ConnectSetIrq ==
  /\ c_pc = "set_irq"
  /\ irq' = IRQ
  /\ c_pc' = "txn_start"
  /\ UNCHANGED << fsmVars, tearVars, chanVars, pageVars, handlerVars, logVars,
                  mt, gref, bound, granted,
                  evtchn, txn, store, dev_state, life, caller, c_log, ret,
                  zeroed_pending >>

\* Lines 557-566
ConnectTxnStart ==
  /\ c_pc = "txn_start"
  /\ \/ /\ txn' = TRUE
        /\ c_log' = Append(c_log, "xenbus_transaction_start")
        /\ c_pc' = "page-ref"
        /\ UNCHANGED << irq, gref, bound, granted, evtchn, ret, life >>
     \/ /\ c_log' = c_log \o << "xenbus_transaction_start:fail",
                                "xenbus_dev_fatal" >>
        /\ c_pc' = "error_irqh"
        /\ UNCHANGED << txn, irq, gref, bound, granted, evtchn, ret, life >>
  /\ UNCHANGED << fsmVars, tearVars, chanVars, pageVars, handlerVars, logVars,
                  mt, store, dev_state, caller,
                  zeroed_pending >>

\* Lines 571-585: the xenbus_printf of key TxnKeys[n].
ConnectWrite(n) ==
  /\ c_pc = TxnKeys[n]
  /\ \/ /\ c_log' = Append(c_log, "xenbus_printf:" \o TxnKeys[n])
        /\ c_pc' = IF n < Len(TxnKeys) THEN TxnKeys[n + 1] ELSE "txn_end"
        /\ UNCHANGED << irq, gref, bound, granted, evtchn, txn, ret, life >>
     \/ /\ c_log' = Append(c_log, "xenbus_printf:" \o TxnKeys[n] \o ":fail")
        /\ c_pc' = "error_xenbus"
        /\ UNCHANGED << irq, gref, bound, granted, evtchn, txn, ret, life >>
  /\ UNCHANGED << fsmVars, tearVars, chanVars, pageVars, handlerVars, logVars,
                  mt, store, dev_state, caller,
                  zeroed_pending >>

ConnectWrites == \E n \in 1 .. Len(TxnKeys) : ConnectWrite(n)

\* How many commits of the current call returned -EAGAIN.
CountEagain(log) ==
  Cardinality({ i \in 1 .. Len(log) : log[i] = "xenbus_transaction_end:EAGAIN" })

MaxRetry == 2

\* (mutant) the retry jumps past xenbus_transaction_start.
ConnectTxnEnd_RetryKeepsTxn ==
  /\ c_pc = "txn_end"
  /\ \/ /\ txn' = FALSE
        /\ store' = { TxnKeys[n] : n \in 1 .. Len(TxnKeys) }
        /\ c_log' = Append(c_log, "xenbus_transaction_end:ok")
        /\ c_pc' = "switch_state"
        /\ UNCHANGED << irq, gref, bound, granted, evtchn, dev_state, ret,
                        life >>
     \/ /\ CountEagain(c_log) < MaxRetry
        /\ c_log' = Append(c_log, "xenbus_transaction_end:EAGAIN")
        /\ c_pc' = "page-ref"
        /\ UNCHANGED << txn, irq, gref, bound, granted, evtchn, store,
                        dev_state, ret, life >>
     \/ /\ txn' = FALSE
        /\ c_log' = c_log \o << "xenbus_transaction_end:fail",
                                "xenbus_dev_fatal" >>
        /\ c_pc' = "error_irqh"
        /\ UNCHANGED << irq, gref, bound, granted, evtchn, ret, life, store,
                        dev_state >>
  /\ UNCHANGED << fsmVars, tearVars, chanVars, pageVars, handlerVars, logVars,
                  mt, caller, zeroed_pending >>

\* Lines 588-601: the commit.  On success the three keys are in the store and
\* the frontend goes on to switch its state; on -EAGAIN it goes back to
\* `again'; on any other error it reports and unwinds.
ConnectTxnEnd ==
  /\ c_pc = "txn_end"
  /\ \/ /\ txn' = FALSE
        /\ store' = { TxnKeys[n] : n \in 1 .. Len(TxnKeys) }
        /\ c_log' = Append(c_log, "xenbus_transaction_end:ok")
        /\ c_pc' = "switch_state"
        /\ UNCHANGED << irq, gref, bound, granted, evtchn, dev_state, ret,
                        life >>
     \/ /\ CountEagain(c_log) < MaxRetry
        /\ txn' = FALSE
        /\ c_log' = Append(c_log, "xenbus_transaction_end:EAGAIN")
        /\ c_pc' = "txn_start"
        /\ UNCHANGED << irq, gref, bound, granted, evtchn, store, dev_state,
                        ret, life >>
     \/ /\ txn' = FALSE
        /\ c_log' = c_log \o << "xenbus_transaction_end:fail",
                                "xenbus_dev_fatal" >>
        /\ c_pc' = "error_irqh"
        /\ UNCHANGED << irq, gref, bound, granted, evtchn, ret, life, store,
                        dev_state >>
  /\ UNCHANGED << fsmVars, tearVars, chanVars, pageVars, handlerVars, logVars,
                  mt, caller, zeroed_pending >>

\* Lines 603-606: xenbus_switch_state(dev, XenbusStateInitialised), and return
\* 0.  The commit has returned; input_handler is bound and may run between
\* the two calls.
ConnectSwitchState ==
  /\ c_pc = "switch_state"
  /\ dev_state' = "Initialised"
  /\ c_log' = Append(c_log, "xenbus_switch_state:Initialised")
  /\ Return(0)
  /\ UNCHANGED << fsmVars, tearVars, chanVars, pageVars, handlerVars, logVars,
                  mt, irq, gref, bound, granted, evtchn, txn, store, caller,
                  zeroed_pending >>

\* error_xenbus: (lines 608-610): abort the transaction and report, then go
\* on to error_irqh.  input_handler is still bound and may run meanwhile.
ErrorXenbus ==
  /\ c_pc = "error_xenbus"
  /\ txn' = FALSE
  /\ c_log' = c_log \o << "xenbus_transaction_end:abort", "xenbus_dev_fatal" >>
  /\ c_pc' = "error_irqh"
  /\ UNCHANGED << fsmVars, tearVars, chanVars, pageVars, handlerVars, logVars,
                  mt, irq, gref, bound, granted, evtchn, ret, life, store,
                  dev_state, caller, zeroed_pending >>

\* (mutant) error_irqh: falls through without unbinding the handler.
ErrorIrqh_KeepsHandler ==
  /\ c_pc = "error_irqh"
  /\ UNCHANGED << bound, irq >>
  /\ ErrorEvtchan(0 - EFAIL, c_log)
  /\ UNCHANGED << fsmVars, tearVars, chanVars, pageVars, handlerVars, logVars,
                  mt, txn, store, dev_state, caller, zeroed_pending >>

\* error_irqh: (lines 611-613) and on, reached after the failing call and its
\* report.  unbind_from_irqhandler returns once no input_handler is running;
\* from then on none runs, and the rest of the unwinding follows.  The error
\* returned is the failing call's.
ErrorIrqh ==
  /\ c_pc = "error_irqh"
  /\ pc = "idle"
  /\ bound' = FALSE
  /\ irq' = 0 - 1
  /\ ErrorEvtchan(0 - EFAIL, Append(c_log, "unbind_from_irqhandler"))
  /\ UNCHANGED << fsmVars, tearVars, chanVars, pageVars, handlerVars, logVars,
                  mt, txn, store, dev_state, caller, zeroed_pending >>

\* (mutant) the handler is left bound.
Disconnect_NoUnbind ==
  /\ UNCHANGED << bound, evtchn >>
  /\ irq' = 0 - 1
  /\ granted' = IF gref >= 0 THEN FALSE ELSE granted
  /\ gref' = 0 - 1

\* oxtkbd_disconnect_backend (lines 628-640).  unbind_from_irqhandler returns
\* once no input_handler is running, and closes the event channel the irq was
\* bound to.
Disconnect ==
  /\ irq >= 0 => pc = "idle"
  /\ bound' = IF irq >= 0 THEN FALSE ELSE bound
  /\ evtchn' = IF irq >= 0 THEN FALSE ELSE evtchn
  /\ irq' = 0 - 1
  /\ granted' = IF gref >= 0 THEN FALSE ELSE granted
  /\ gref' = 0 - 1

\* The calls oxtkbd_disconnect_backend makes, in order (lines 631-638).
DisconnectCalls_GrantFirst ==
  (IF gref >= 0 THEN << "gnttab_end_foreign_access" >> ELSE << >>)
  \o (IF irq >= 0 THEN << "unbind_from_irqhandler" >> ELSE << >>)

DisconnectCalls ==
  (IF irq >= 0 THEN << "unbind_from_irqhandler" >> ELSE << >>)
  \o (IF gref >= 0 THEN << "gnttab_end_foreign_access" >> ELSE << >>)

\* The calls by which oxtkbd_remove unregisters the devices in ds (lines
\* 503-510): a device oxtkbd_probe did not get to create is skipped.
UnregisterCalls(ds) ==
  (IF "kbd" \in ds THEN << "input_unregister_device:kbd" >> ELSE << >>)
  \o (IF "ptr" \in ds THEN << "input_unregister_device:ptr" >> ELSE << >>)
  \o (IF "absolute_pointer" \in ds
      THEN << "input_mt_destroy_slots:absolute_pointer",
              "input_unregister_device:absolute_pointer" >>
      ELSE << >>)

\* oxtkbd_remove (lines 494-518): disconnect, unregister the devices that
\* exist, free the page (free_page is called also when oxtkbd_probe failed to
\* allocate it) and the info structure.
RemoveBody ==
  /\ Disconnect
  /\ t_log' = DisconnectCalls \o UnregisterCalls(devs)
              \o << "free_page", "kfree" >>
  /\ page_freed' = TRUE
  /\ devs' = { }
  /\ life' = "removed"
  /\ UNCHANGED << pageVars, handlerVars, logVars, mt, txn, store,
                  dev_state, caller, c_log, ret, zeroed_pending, fsmVars,
                  chanVars, p_log >>

\* The device is removed (driver unbound) while no other callback runs.
Remove ==
  /\ life = "live"
  /\ c_pc = "none"
  /\ RemoveBody
  /\ UNCHANGED c_pc

\* oxtkbd_probe's error: label (lines 463-465) after a failed
\* oxtkbd_connect_backend.
ProbeError ==
  /\ c_pc = "probe_error"
  /\ RemoveBody
  /\ c_pc' = "none"

MaxResume == 1

\* (mutant) the page is not zeroed.
Resume_NoMemset ==
  /\ life = "live"
  /\ c_pc = "none"
  /\ gen < MaxResume
  /\ Disconnect
  /\ gen' = gen + 1
  /\ zeroed_pending' = Dist32(in_cons, in_prod)
  /\ c_pc' = "grant"
  /\ caller' = "resume"
  /\ c_log' = << >>
  /\ t_log' = DisconnectCalls
  /\ UNCHANGED << in_prod, in_cons, ring, ring_gen, wrote, base, stale,
                  handlerVars,
                  logVars, mt, txn, store, dev_state, life, ret,
                  fsmVars, page_freed, devs, p_log, chanVars >>

\* oxtkbd_resume (lines 473-486): disconnect, zero the page, and call
\* oxtkbd_connect_backend, whose steps follow.
Resume ==
  /\ life = "live"
  /\ c_pc = "none"
  /\ gen < MaxResume
  /\ Disconnect
  /\ in_prod' = 0
  /\ in_cons' = 0
  /\ ring' = [s \in Slots |-> ZeroEvent]
  /\ ring_gen' = [s \in Slots |-> gen + 1]
  /\ gen' = gen + 1
  /\ wrote' = << >>
  /\ base' = 0
  /\ stale' = << >>
  /\ zeroed_pending' = Dist32(in_cons, in_prod)
  /\ c_pc' = "grant"
  /\ caller' = "resume"
  /\ c_log' = << >>
  /\ t_log' = DisconnectCalls
  /\ UNCHANGED << handlerVars, logVars, mt, txn, store, dev_state,
                  life, ret, fsmVars, page_freed, devs, p_log, chanVars >>

(***************************************************************************)
(* Spec: the device from the entry of oxtkbd_probe on.  The backend stores *)
(* events whenever the page is granted to it.                              *)
(***************************************************************************)
MaxProd == 2

ENOMEM == 12

\* What a step of oxtkbd_probe before oxtkbd_connect_backend leaves alone.
ProbeFrame ==
  UNCHANGED << pageVars, handlerVars, logVars, mt, infoVars, chanVars, t_log,
               page_freed, granted, evtchn, txn, store, dev_state, caller,
               c_log, zeroed_pending, b_state, b_self, b_store, b_log, b_pc,
               b_abs >>

\* error_nomem: (lines 460-462): report, then go on to error:, where
\* oxtkbd_remove runs (ProbeError).
ErrorNomem(log) ==
  /\ p_log' = log \o << "xenbus_dev_fatal" >>
  /\ ret' = 0 - ENOMEM
  /\ c_pc' = "probe_error"
  /\ UNCHANGED << life, devs, absmax >>

\* Lines 415-419: when the info structure cannot be allocated the probe
\* returns at once, with nothing to tear down.
ProbeKzalloc ==
  /\ c_pc = "kzalloc"
  /\ \/ /\ p_log' = Append(p_log, "kzalloc")
        /\ c_pc' = "page"
        /\ UNCHANGED << ret, life >>
     \/ /\ p_log' = p_log \o << "kzalloc:fail", "xenbus_dev_fatal" >>
        /\ ret' = 0 - ENOMEM
        /\ c_pc' = "none"
        /\ life' = "failed"
  /\ UNCHANGED << devs, absmax >>
  /\ ProbeFrame

\* Lines 432-434: the zeroed page.
ProbePage ==
  /\ c_pc = "page"
  /\ \/ /\ p_log' = Append(p_log, "__get_free_page")
        /\ c_pc' = "kbd"
        /\ UNCHANGED << ret, life, devs, absmax >>
     \/ ErrorNomem(Append(p_log, "__get_free_page:fail"))
  /\ ProbeFrame

\* Lines 438-450: the device that follows d, or the connection.
AfterDevice(d) ==
  CASE d = "kbd" -> "ptr"
    [] d = "ptr" -> "absolute_pointer"
    [] d = "absolute_pointer" -> "grant"

\* Lines 438-450: one of the three devices is allocated and registered; only
\* the absolute pointer has axes with bounds.
ProbeDevice(d) ==
  /\ c_pc = d
  /\ \/ /\ p_log' = p_log \o AllocateCalls(d, "ok")
        /\ devs' = devs \cup { d }
        /\ absmax' = IF d = "absolute_pointer" THEN AbsInit ELSE absmax
        /\ c_pc' = AfterDevice(d)
        /\ UNCHANGED << ret, life >>
     \/ \E outcome \in { "allocate_fail", "register_fail" } :
          ErrorNomem(p_log \o AllocateCalls(d, outcome))
  /\ ProbeFrame

ProbeDevices == \E d \in AllDevs : ProbeDevice(d)

\* oxtkbd_probe from its entry (line 414).
Init ==
  /\ PageInit(0)
  /\ HandlerInit
  /\ irq = 0 - 1
  /\ gref = 0 - 1
  /\ bound = FALSE
  /\ granted = FALSE
  /\ evtchn = FALSE
  /\ txn = FALSE
  /\ store = { }
  /\ dev_state = "Initialising"
  /\ life = "live"
  /\ c_pc = "kzalloc"
  /\ caller = "probe"
  /\ c_log = << >>
  /\ ret = 0
  /\ zeroed_pending = 0
  /\ b_state = "none"
  /\ b_self = "none"
  /\ b_store = NoStore
  /\ b_log = << >>
  /\ b_pc = "none"
  /\ b_abs = AbsNone
  /\ absmax = AbsNone
  /\ t_log = << >>
  /\ page_freed = FALSE
  /\ devs = { }
  /\ p_log = << >>
  /\ ChanInit

ProduceCtl ==
  /\ granted
  /\ Len(wrote) < MaxProd
  /\ Produce(BurstEvent(Len(wrote)))
  /\ UNCHANGED << handlerVars, logVars, mt, infoVars, connVars, fsmVars,
                  tearVars, chanVars >>

Next ==
  \/ ProbeKzalloc \/ ProbePage \/ ProbeDevices
  \/ ConnectGrant \/ ConnectEvtchn \/ ConnectBind \/ ConnectSetIrq
  \/ ConnectTxnStart \/ ConnectWrites \/ ConnectTxnEnd \/ ConnectSwitchState
  \/ ErrorXenbus \/ ErrorIrqh
  \/ ProbeError
  \/ Resume
  \/ Remove
  \/ ProduceCtl
  \/ HandlerEntry \/ HandlerLoop \/ HandlerExit \/ HandlerNotify

Spec == Init /\ [][Next]_vars

(***************************************************************************)
(* SpecBurst: a connected device whose backend stores a burst of distinct  *)
(* events while the handler is not running, from a cursor near 0 or near   *)
(* the 32-bit wrap; the handler drains at any time in between.             *)
(***************************************************************************)
MaxBurst == 60
StartCursors == { 0, 0 - 2 }

\* The device after a successful probe, the backend connected.
Connected ==
  /\ irq = IRQ
  /\ gref = GREF
  /\ bound = TRUE
  /\ granted = TRUE
  /\ evtchn = TRUE
  /\ txn = FALSE
  /\ store = { TxnKeys[n] : n \in 1 .. Len(TxnKeys) }
  /\ dev_state = "Connected"
  /\ life = "live"
  /\ c_pc = "none"
  /\ caller = "probe"
  /\ c_log = << "gnttab_grant_foreign_access", "xenbus_alloc_evtchn",
                "bind_evtchn_to_irqhandler" >>
             \o TxnAttempt("ok") \o << "xenbus_switch_state:Initialised" >>
  /\ ret = 0
  /\ zeroed_pending = 0

InitBurst ==
  /\ \E c0 \in StartCursors : PageInit(c0)
  /\ HandlerInit
  /\ Connected
  /\ FsmConnected
  /\ TearInit
  /\ ChanInit

ProduceBurst ==
  /\ pc = "idle"
  /\ Len(wrote) < MaxBurst
  /\ Produce(BurstEvent(Len(wrote)))
  /\ UNCHANGED << handlerVars, logVars, mt, infoVars, connVars, fsmVars,
                  tearVars, chanVars >>

NextBurst ==
  ProduceBurst \/ HandlerEntry \/ HandlerLoop \/ HandlerExit \/ HandlerNotify

SpecBurst == InitBurst /\ [][NextBurst]_vars

\* The same from the cursor near the 32-bit wrap, the handler running on:
\* once input_handler is entered its loop and its exit are executed (the
\* handler runs to completion on its CPU).
InitWrap ==
  /\ PageInit(0 - 2)
  /\ HandlerInit
  /\ Connected
  /\ FsmConnected
  /\ TearInit
  /\ ChanInit

\* The last event the backend stores may be a KEY event whose keycode
\* (0x7fffffff) lies past the keybit bitmaps.
ProduceKey ==
  /\ pc = "idle"
  /\ Len(wrote) = MaxBurst - 1
  /\ Produce(KeyEvent(2147483647, 1))
  /\ UNCHANGED << handlerVars, logVars, mt, infoVars, connVars, fsmVars,
                  tearVars, chanVars >>

MaxTorn == 3

\* While input_handler is in its loop the backend may store, into the slot
\* the handler is at, an event whose tag (200) is none of the seven defined.
ProduceUnknown ==
  /\ pc = "loop"
  /\ cons # prod
  /\ OXT_KBD_IN_RING_REF(in_prod) = OXT_KBD_IN_RING_REF(cons)
  /\ Len(wrote) < MaxTorn
  /\ Produce(Event(200, 1, 30, 0, 0))
  /\ UNCHANGED << handlerVars, logVars, mt, infoVars, connVars, fsmVars,
                  tearVars, chanVars >>

NextBurstFair ==
  \/ ProduceBurst \/ ProduceKey \/ ProduceUnknown
  \/ HandlerEntry \/ HandlerLoop \/ HandlerExit \/ HandlerNotify

SpecBurstFair ==
  /\ InitWrap
  /\ [][NextBurstFair]_vars
  /\ WF_vars(HandlerLoop)
  /\ WF_vars(HandlerExit)
  /\ WF_vars(HandlerNotify)

(***************************************************************************)
(* SpecRace: a connected device whose backend stores events at any time,   *)
(* also while input_handler is between two of its steps, from a cursor at  *)
(* 0 or just below the 32-bit wrap.                                        *)
(***************************************************************************)
MaxRace == 4

ProduceRace ==
  /\ Len(wrote) < MaxRace
  /\ Produce(BurstEvent(Len(wrote)))
  /\ UNCHANGED << handlerVars, logVars, mt, infoVars, connVars, fsmVars,
                  tearVars, chanVars >>

NextRace ==
  ProduceRace \/ HandlerEntry \/ HandlerLoop \/ HandlerExit \/ HandlerNotify

SpecRace == InitBurst /\ [][NextRace]_vars

(***************************************************************************)
(* SpecLive: SpecRace with the notifications.  The backend raises the      *)
(* event channel after each store; a raised channel stays pending until    *)
(* input_handler is entered for it, so a notification raised while a drain *)
(* runs causes one more drain afterwards.  A pending notification is       *)
(* delivered, and input_handler, once entered, runs on.                    *)
(***************************************************************************)
MaxLive == 3

ProduceLive ==
  /\ ~ owed
  /\ Len(wrote) < MaxLive
  /\ Produce(BurstEvent(Len(wrote)))
  /\ owed' = TRUE
  /\ UNCHANGED << handlerVars, logVars, mt, infoVars, connVars, fsmVars,
                  tearVars, pending >>

NotifyLive ==
  /\ owed
  /\ owed' = FALSE
  /\ pending' = TRUE
  /\ UNCHANGED << pageVars, handlerVars, logVars, mt, infoVars, connVars,
                  fsmVars, tearVars >>

EntryOnNotice == pending /\ HandlerEntry

NextLive ==
  \/ ProduceLive \/ NotifyLive
  \/ EntryOnNotice \/ HandlerLoop \/ HandlerExit \/ HandlerNotify

SpecLive ==
  /\ InitBurst
  /\ [][NextLive]_vars
  /\ WF_vars(NotifyLive)
  /\ WF_vars(EntryOnNotice)
  /\ WF_vars(HandlerLoop)
  /\ WF_vars(HandlerExit)
  /\ WF_vars(HandlerNotify)

(***************************************************************************)
(* SpecDispatch: a connected device whose backend stores, at any time,     *)
(* motion, key, position and unknown-tag events; SpecTouch: the same with  *)
(* the multitouch events.                                                  *)
(***************************************************************************)
MaxEvents == 3
MaxTouch == 3

\* Tag 2 is documented as unused; tag 9 is past the last tag defined.
UnknownEvents == { Event(2, 1, 272, 5, 5), Event(9, 0, 30, 0, 7) }

\* Keycodes: 30 (KEY_A) is declared by the keyboard only, 272 (BTN_LEFT) by
\* the pointer only, 240 (KEY_UNKNOWN) by neither, and 768 (KEY_CNT) lies past
\* the keybit bitmaps.
KeyEvents ==
  { KeyEvent(30, 1), KeyEvent(30, 0), KeyEvent(272, 1), KeyEvent(240, 1),
    KeyEvent(768, 1) }

DispatchEvents ==
  UnknownEvents \cup KeyEvents
    \cup { MotionEvent(3, 0 - 4, 5), MotionEvent(3, 0 - 4, 0),
           MotionEvent(3, 0 - 4, S32_MIN),
           PosEvent(100, 200, 0 - 3), PosEvent(100, 200, 0) }

\* Finger ids: two that name slots and one (10) that names none.
TouchIds == { 0, 1, 10 }
TouchEvents ==
  { TouchDownEvent(id, 11, 12) : id \in TouchIds }
    \cup { TouchMoveEvent(id, 13, 14) : id \in TouchIds }
    \cup { TouchUpEvent(id) : id \in TouchIds }
    \cup { TouchFrameEvent }

InitDispatch ==
  /\ PageInit(0)
  /\ HandlerInit
  /\ Connected
  /\ FsmConnected
  /\ TearInit
  /\ ChanInit

ProduceDispatch ==
  /\ Len(wrote) < MaxEvents
  /\ \E e \in DispatchEvents : Produce(e)
  /\ UNCHANGED << handlerVars, logVars, mt, infoVars, connVars, fsmVars,
                  tearVars, chanVars >>

NextDispatch ==
  ProduceDispatch \/ HandlerEntry \/ HandlerLoop \/ HandlerExit \/ HandlerNotify

SpecDispatch == InitDispatch /\ [][NextDispatch]_vars

ProduceTouch ==
  /\ Len(wrote) < MaxTouch
  /\ \E e \in TouchEvents : Produce(e)
  /\ UNCHANGED << handlerVars, logVars, mt, infoVars, connVars, fsmVars,
                  tearVars, chanVars >>

NextTouch ==
  ProduceTouch \/ HandlerEntry \/ HandlerLoop \/ HandlerExit \/ HandlerNotify

SpecTouch == InitDispatch /\ [][NextTouch]_vars

(***************************************************************************)
(* oxtkbd_backend_changed, and SpecFsm: the device from the return of a    *)
(* successful oxtkbd_probe on, the backend changing its XenBus state and   *)
(* storing events at any time.                                             *)
(***************************************************************************)
XenbusStates ==
  { "Unknown", "Initialising", "InitWait", "Initialised", "Connected",
    "Closing", "Closed", "Reconfiguring", "Reconfigured" }

\* What the backend's node may hold: whether it advertises
\* feature-abs-pointer, and width and height, each absent (<< >>) or a value.
BackendStores ==
  [feature : BOOLEAN, width : { << >>, << 1024 >> },
   height : { << >>, << 768 >> }]

\* Lines 661-664: the InitWait label.
InitWaitPath(st) ==
  /\ dev_state' = "Connected"
  /\ b_log' = << "xenbus_switch_state:Connected" >>
  /\ UNCHANGED << b_pc, absmax, store, irq, gref, bound, granted >>

\* (mutant) the InitWait path is taken when the frontend is already Connected.
ConnectedPath_Inverted(st) ==
  IF dev_state = "Connected" THEN InitWaitPath(st)
  ELSE /\ b_log' = << >>
       /\ UNCHANGED << dev_state, b_pc, absmax, store, irq, gref, bound,
                       granted >>

\* Lines 666-680: case XenbusStateConnected, up to the second xenbus_scanf:
\* the frontend not yet Connected takes the InitWait path; else the width is
\* read from the backend's node and, when it is there, set on the pointer.
\* The read of the height waits for XenStore, and follows as a step of its
\* own (ConnectedHeight).
ConnectedPath(st) ==
  IF dev_state # "Connected" THEN InitWaitPath(st)
  ELSE /\ b_log' =
            << "xenbus_scanf:width" >>
            \o (IF Len(st.width) > 0
                THEN << "input_set_abs_params:ptr:ABS_X" >> ELSE << >>)
       /\ absmax' =
            [absmax EXCEPT
               !["ptr"]["ABS_X"] = IF Len(st.width) > 0 THEN st.width[1] ELSE @]
       /\ b_pc' = "height"
       /\ UNCHANGED << dev_state, store, irq, gref, bound, granted >>

\* Lines 682-686: the height is read from the backend's node and, when it is
\* there, set on the pointer; oxtkbd_backend_changed returns.  input_handler
\* may have run since the width was set.
ConnectedHeight ==
  /\ b_pc = "height"
  /\ b_log' =
       b_log \o << "xenbus_scanf:height" >>
       \o (IF Len(b_store.height) > 0
           THEN << "input_set_abs_params:ptr:ABS_Y" >> ELSE << >>)
  /\ absmax' =
       [absmax EXCEPT
          !["ptr"]["ABS_Y"] =
             IF Len(b_store.height) > 0 THEN b_store.height[1] ELSE @]
  /\ b_pc' = "none"
  /\ UNCHANGED << pageVars, handlerVars, logVars, mt, infoVars, connVars,
                  tearVars, chanVars, b_state, b_self, b_store, b_abs >>

\* Lines 693-695: case XenbusStateClosing, xenbus_frontend_closed(dev).
ClosingPath(st) ==
  /\ dev_state' = "Closed"
  /\ b_log' = << "xenbus_frontend_closed" >>
  /\ UNCHANGED << b_pc, absmax, store, irq, gref, bound, granted >>

\* oxtkbd_backend_changed(dev, backend_state) (lines 647-697), the backend's
\* node holding st: the whole call, but for the read of the height in case
\* XenbusStateConnected (ConnectedHeight).  XenBus makes these calls one
\* after the other.
BackendChanged(backend_state, st) ==
  /\ life = "live"
  /\ c_pc = "none"
  /\ b_pc = "none"
  /\ b_state' = backend_state
  /\ b_self' = dev_state
  /\ b_store' = st
  /\ b_abs' = absmax
  /\ CASE backend_state = "InitWait" -> InitWaitPath(st)
       [] backend_state = "Connected" -> ConnectedPath(st)
       [] backend_state = "Closing" -> ClosingPath(st)
       [] backend_state = "Closed" /\ dev_state # "Closed" -> ClosingPath(st)
       [] OTHER ->
            /\ b_log' = << >>
            /\ UNCHANGED << dev_state, b_pc, absmax, store, irq, gref, bound,
                            granted >>
  /\ UNCHANGED << pageVars, handlerVars, logVars, mt, evtchn, txn, life, c_pc,
                  caller, c_log, ret, zeroed_pending, tearVars, chanVars >>

BackendChanges ==
  \E backend_state \in XenbusStates, st \in BackendStores :
    BackendChanged(backend_state, st)

\* The state oxtkbd_probe returns in when nothing failed.
Probed ==
  /\ irq = IRQ
  /\ gref = GREF
  /\ bound = TRUE
  /\ granted = TRUE
  /\ evtchn = TRUE
  /\ txn = FALSE
  /\ store = { TxnKeys[n] : n \in 1 .. Len(TxnKeys) }
  /\ dev_state = "Initialised"
  /\ life = "live"
  /\ c_pc = "none"
  /\ caller = "probe"
  /\ c_log = << "gnttab_grant_foreign_access", "xenbus_alloc_evtchn",
                "bind_evtchn_to_irqhandler" >>
             \o TxnAttempt("ok") \o << "xenbus_switch_state:Initialised" >>
  /\ ret = 0
  /\ zeroed_pending = 0

InitFsm ==
  /\ PageInit(0)
  /\ HandlerInit
  /\ Probed
  /\ FsmInit
  /\ TearInit
  /\ ChanInit

NextFsm ==
  BackendChanges \/ ConnectedHeight \/ ProduceCtl \/ HandlerEntry \/ HandlerLoop \/ HandlerExit
  \/ HandlerNotify

SpecFsm == InitFsm /\ [][NextFsm]_vars

(***************************************************************************)
(* Properties of one drain                                                 *)
(***************************************************************************)
\* The last non-empty drain has returned.
DrainDone == pc = "idle" /\ Len(notified) > 0

\* How many events the last non-empty drain had to process: prod - in_cons.
DrainCount == Dist32(d_start, prod)

\* The event the backend stored when its cursor was k.
WrittenAt(k) == wrote[Dist32(base, k) + 1]

\* A completed drain during which the backend stored nothing.
QuietDrainDone == DrainDone /\ in_prod = prod

\* C1: a drain that begins with N <= ring length events stored at cursors
\* c .. c+N-1 and no production during it dispatches exactly these N events in
\* the order they were stored, leaves page->in_cons = c+N and notifies once.
C1_FifoDrain ==
  (QuietDrainDone /\ DrainCount <= OXT_KBD_IN_RING_LEN) =>
    /\ Len(dispatched) = DrainCount
    /\ \A i \in 1 .. Len(dispatched) :
         dispatched[i] = WrittenAt(Add32(d_start, i - 1))
    /\ in_cons = Add32(d_start, DrainCount)
    /\ Len(notified) = 1

\* The same for a drain whose cursors c .. c+N-1 do not pass the 32-bit wrap
\* (c <= c+N-1 as unsigned values, neither 0xFFFFFFFF followed by 0).
NoWrapInDrain ==
  \/ d_start >= 0 /\ Add32(d_start, DrainCount) >= d_start
  \/ d_start < 0 /\ Add32(d_start, DrainCount) <= 0
FifoDrainAwayFromWrap ==
  (QuietDrainDone /\ DrainCount <= OXT_KBD_IN_RING_LEN /\ NoWrapInDrain) =>
    /\ Len(dispatched) = DrainCount
    /\ \A i \in 1 .. Len(dispatched) :
         dispatched[i] = WrittenAt(Add32(d_start, i - 1))
    /\ in_cons = Add32(d_start, DrainCount)
    /\ Len(notified) = 1

\* C2: an invocation of input_handler while page->in_prod = page->in_cons
\* changes nothing: no event is dispatched, no device call is made, in_cons
\* is not written and no notification is sent.
C2_EmptyDrainNoop ==
  [][(HandlerEntry /\ in_prod = in_cons) => UNCHANGED vars]_vars
\* A state in which such an invocation happens after an earlier, real drain.
C2_Witness ==
  /\ ENABLED HandlerEntry
  /\ in_prod = in_cons
  /\ DrainDone
  /\ Len(dispatched) > 1

\* C6: overrun.  From cursor 0, with more events stored than the ring has
\* slots and none drained in between, one drain dispatches one event per
\* cursor in cursor order, each read from slot cursor mod 51; a cursor whose
\* slot was stored again since reads the newer event; in_cons ends at the
\* producer cursor and the drain notifies once.
C6_OverrunDrain ==
  (QuietDrainDone /\ base = 0 /\ DrainCount > OXT_KBD_IN_RING_LEN) =>
    /\ Len(dispatched) = DrainCount
    /\ \A i \in 1 .. Len(dispatched) :
         LET k == d_start + (i - 1)
         IN /\ dispatched[i] =
                 IF k + OXT_KBD_IN_RING_LEN < prod
                 THEN WrittenAt(k + OXT_KBD_IN_RING_LEN) ELSE WrittenAt(k)
            /\ ops[i] = Dispatch(Whole(dispatched[i]), << "bitmap", "bitmap" >>)
    /\ in_cons = prod
    /\ Len(notified) = 1
\* The scenario of the claim: 60 events from cursor 0, and cursors 0 and 51
\* both deliver the event stored 52nd.
C6_Witness ==
  /\ QuietDrainDone
  /\ base = 0
  /\ d_start = 0
  /\ prod = 60
  /\ Len(dispatched) = 60
  /\ dispatched[1] = BurstEvent(51)
  /\ dispatched[52] = BurstEvent(51)
  /\ dispatched[9] = BurstEvent(59)
  /\ dispatched[10] = BurstEvent(9)
  /\ in_cons = 60

(***************************************************************************)
(* Properties of the dispatch                                              *)
(***************************************************************************)
\* C3: an event whose tag is none of the seven defined causes no device call
\* and is consumed like any other; the events before and after it in the same
\* drain cause the calls they cause on their own, and in_cons advances over
\* all of them.
C3_UnknownTagSkipped ==
  /\ \A i \in 1 .. Len(dispatched) :
       IF dispatched[i].type \in KnownTypes
       THEN \E oob \in TestBitOutcomes(Whole(dispatched[i])) :
              ops[i] = Dispatch(Whole(dispatched[i]), oob)
       ELSE ops[i] = << >>
  /\ Len(ops) = Len(dispatched)
  /\ DrainDone => (Len(dispatched) = DrainCount /\ in_cons = prod)
\* A completed drain with an unknown event between two events that caused
\* calls.
C3_Witness ==
  /\ DrainDone
  /\ Len(dispatched) = 3
  /\ dispatched[2] \in UnknownEvents
  /\ dispatched[1].type \in KnownTypes
  /\ dispatched[3].type \in KnownTypes
  /\ ops[1] # << >>
  /\ ops[2] = << >>
  /\ ops[3] # << >>
  /\ in_cons = 3

\* The calls the routing rule of the key handler prescribes for a keycode:
\* the pointer if it declares the keycode, else the keyboard if it declares
\* it, else no device call and one diagnostic.
KeyRouting(event) ==
  IF KeyCode(event) \in PtrKeybit
  THEN << KeyOp("ptr", KeyCode(event), event.b1),
          Op("ptr", "input_sync", "SYN_REPORT", 0) >>
  ELSE IF KeyCode(event) \in KbdKeybit
  THEN << KeyOp("kbd", KeyCode(event), event.b1),
          Op("kbd", "input_sync", "SYN_REPORT", 0) >>
  ELSE << [dev |-> "log", op |-> "pr_warning", code |-> "unhandled keycode",
           arg |-> KeyCode(event), value |-> 0] >>

\* C7: every KEY event is routed by that rule.
C7_KeyRouting ==
  \A i \in 1 .. Len(dispatched) :
    dispatched[i].type = OXT_KBD_TYPE_KEY => ops[i] = KeyRouting(dispatched[i])

\* The rule holds for the keycodes that lie within the keybit bitmaps.
KeyRoutingWithinBitmap ==
  \A i \in 1 .. Len(dispatched) :
    (dispatched[i].type = OXT_KBD_TYPE_KEY /\ ~PastKeybit(KeyCode(dispatched[i])))
      => ops[i] = KeyRouting(dispatched[i])

\* Whether the call w is the wheel delta -z on device d.  The value of a call
\* is an int; none is -z when z is -2^31.
WheelMinus(w, d, z) ==
  /\ w = Op(d, "input_report_rel", "REL_WHEEL", w.value)
  /\ z # S32_MIN
  /\ w.value = 0 - z

\* Whether calls are those C8 prescribes for an event of wheel value z on
\* device d, first and second being the calls that forward x and y: these
\* two, one wheel delta of -z when z is not zero and none when it is, and a
\* sync.
WheelNegated(calls, d, first, second, z) ==
  /\ Len(calls) = (IF z # 0 THEN 4 ELSE 3)
  /\ calls[1] = first
  /\ calls[2] = second
  /\ z # 0 => WheelMinus(calls[3], d, z)
  /\ calls[Len(calls)] = Op(d, "input_sync", "SYN_REPORT", 0)

\* C8: a MOTION event forwards x and y to the relative pointer and a POSITION
\* event to the absolute pointer, each followed by one wheel delta of -z when
\* z is not zero and by none when it is, and then a sync.
C8_WheelNegated ==
  \A i \in 1 .. Len(dispatched) :
    LET e == dispatched[i]
    IN /\ e.type = OXT_KBD_TYPE_MOTION =>
            WheelNegated(ops[i], "ptr",
                         Op("ptr", "input_report_rel", "REL_X", e.w4),
                         Op("ptr", "input_report_rel", "REL_Y", e.w8), e.w12)
       /\ e.type = OXT_KBD_TYPE_POS =>
            WheelNegated(ops[i], "absolute_pointer",
                         Op("absolute_pointer", "input_report_abs", "ABS_X", e.w4),
                         Op("absolute_pointer", "input_report_abs", "ABS_Y", e.w8),
                         e.w12)

\* C8 (amended): the same, the wheel delta being -z for every z but -2^31, for
\* which the 32-bit negation wraps and the delta is -2^31 itself.
C8_WheelNegatedModulo ==
  \A i \in 1 .. Len(dispatched) :
    LET e == dispatched[i]
        wheel(d) ==
          IF e.w12 = 0 THEN << >>
          ELSE IF e.w12 = S32_MIN
            THEN << Op(d, "input_report_rel", "REL_WHEEL", S32_MIN) >>
          ELSE << Op(d, "input_report_rel", "REL_WHEEL", 0 - e.w12) >>
    IN /\ e.type = OXT_KBD_TYPE_MOTION =>
            ops[i] = << Op("ptr", "input_report_rel", "REL_X", e.w4),
                        Op("ptr", "input_report_rel", "REL_Y", e.w8) >>
                     \o wheel("ptr")
                     \o << Op("ptr", "input_sync", "SYN_REPORT", 0) >>
       /\ e.type = OXT_KBD_TYPE_POS =>
            ops[i] = << Op("absolute_pointer", "input_report_abs", "ABS_X", e.w4),
                        Op("absolute_pointer", "input_report_abs", "ABS_Y", e.w8) >>
                     \o wheel("absolute_pointer")
                     \o << Op("absolute_pointer", "input_sync", "SYN_REPORT", 0) >>
\* One drain that dispatched a MOTION with rel_z = 5 (wheel -5), a MOTION with
\* rel_z = 0 (no wheel) and a MOTION with rel_z = -2^31 (wheel -2^31).
C8_Witness ==
  \E i, j, k \in 1 .. Len(dispatched) :
    /\ dispatched[i] = MotionEvent(3, 0 - 4, 5)
    /\ ops[i][3] = Op("ptr", "input_report_rel", "REL_WHEEL", 0 - 5)
    /\ dispatched[j] = MotionEvent(3, 0 - 4, 0)
    /\ Len(ops[j]) = 3
    /\ dispatched[k] = MotionEvent(3, 0 - 4, S32_MIN)
    /\ ops[k][3] = Op("ptr", "input_report_rel", "REL_WHEEL", S32_MIN)
    /\ Len(ops[k]) = 4

(***************************************************************************)
(* Properties of the multitouch handlers                                   *)
(***************************************************************************)
IsTouch(e, t, id) == e.type = t /\ e.w4 = id

\* dispatched[i] .. dispatched[j] is TOUCH_DOWN, one or more TOUCH_MOVE,
\* TOUCH_UP, all for finger id.
DownMoveUp(i, j, id) ==
  /\ i + 1 < j
  /\ IsTouch(dispatched[i], OXT_KBD_TYPE_TOUCH_DOWN, id)
  /\ \A m \in (i + 1) .. (j - 1) :
       IsTouch(dispatched[m], OXT_KBD_TYPE_TOUCH_MOVE, id)
  /\ IsTouch(dispatched[j], OXT_KBD_TYPE_TOUCH_UP, id)

SelectSlot(id) == Op("absolute_pointer", "input_mt_slot", "ABS_MT_SLOT", id)
SlotState(a) ==
  Op("absolute_pointer", "input_mt_report_slot_state", "MT_TOOL_FINGER", a)
MtPosition(e) ==
  << Op("absolute_pointer", "input_report_abs", "ABS_MT_POSITION_X", e.w8),
     Op("absolute_pointer", "input_report_abs", "ABS_MT_POSITION_Y", e.w12) >>

\* How many of the calls of dispatched[i] .. dispatched[j] equal o.
RECURSIVE CountCalls(_, _, _)
CountCalls(i, j, o) ==
  IF i > j THEN 0
  ELSE Cardinality({ n \in 1 .. Len(ops[i]) : ops[i][n] = o })
         + CountCalls(i + 1, j, o)

\* C9: TOUCH_DOWN, TOUCH_MOVE (one or more), TOUCH_UP for one id cause exactly
\* one "slot active, finger" call, position updates that all follow a
\* selection of the same slot, and exactly one "slot inactive" call; once the
\* TOUCH_UP is dispatched the slot they addressed is not active.
C9_DownMoveUp ==
  \A id \in TouchIds : \A i, j \in 1 .. Len(dispatched) :
    DownMoveUp(i, j, id) =>
      /\ ops[i] = << SelectSlot(id), SlotState(1) >> \o MtPosition(dispatched[i])
      /\ \A m \in (i + 1) .. (j - 1) :
           ops[m] = << SelectSlot(id) >> \o MtPosition(dispatched[m])
      /\ ops[j] = << SelectSlot(id), SlotState(0) >>
      /\ CountCalls(i, j, SlotState(1)) = 1
      /\ CountCalls(i, j, SlotState(0)) = 1
      /\ j = Len(dispatched) =>
           /\ ~ mt.active[mt.slot]
           /\ id \in DOMAIN mt.active => (mt.slot = id /\ ~ mt.active[id])
\* The three events for finger 1 have just been dispatched.
C9_Witness ==
  /\ Len(dispatched) = 3
  /\ DownMoveUp(1, 3, 1)
  /\ mt.slot = 1
  /\ mt.active = [s \in 0 .. (MT_SLOTS - 1) |-> FALSE]

\* Whether, before dispatched[i], finger id has a TOUCH_DOWN that no TOUCH_UP
\* has followed.
Assigned(id, i) ==
  \E j \in 1 .. (i - 1) :
    /\ IsTouch(dispatched[j], OXT_KBD_TYPE_TOUCH_DOWN, id)
    /\ \A m \in (j + 1) .. (i - 1) :
         ~ IsTouch(dispatched[m], OXT_KBD_TYPE_TOUCH_UP, id)

\* The multitouch state after the first i dispatched events of the first
\* drain since the devices were created.
RECURSIVE MtAfter(_)
MtAfter(i) == IF i = 0 THEN MtInit ELSE MtApplyAll(MtAfter(i - 1), ops[i])

\* C10: a TOUCH_MOVE or TOUCH_UP for an id with no assigned slot causes no
\* call on the absolute pointer and leaves every slot's state as it was.
C10_UnknownIdIgnored ==
  (d_start = base /\ gen = 0) =>
    \A i \in 1 .. Len(dispatched) :
      ( /\ dispatched[i].type \in { OXT_KBD_TYPE_TOUCH_MOVE, OXT_KBD_TYPE_TOUCH_UP }
        /\ ~ Assigned(dispatched[i].w4, i) )
      => /\ ops[i] = << >>
         /\ MtAfter(i).active = MtAfter(i - 1).active

\* The second half of C10 alone: such an event leaves every slot's active
\* state as it was.
C10_SlotStateKept ==
  (d_start = base /\ gen = 0) =>
    \A i \in 1 .. Len(dispatched) :
      ( /\ dispatched[i].type \in { OXT_KBD_TYPE_TOUCH_MOVE, OXT_KBD_TYPE_TOUCH_UP }
        /\ ~ Assigned(dispatched[i].w4, i) )
      => MtAfter(i).active = MtAfter(i - 1).active

(***************************************************************************)
(* Properties of the connection code                                       *)
(***************************************************************************)
RECURSIVE Retries(_)
Retries(k) == IF k = 0 THEN << >> ELSE TxnAttempt("EAGAIN") \o Retries(k - 1)

\* The calls of an oxtkbd_connect_backend whose commit returns -EAGAIN k times
\* and then succeeds.
ConnectLogOk(k) ==
  << "gnttab_grant_foreign_access", "xenbus_alloc_evtchn",
     "bind_evtchn_to_irqhandler" >>
  \o Retries(k) \o TxnAttempt("ok") \o << "xenbus_switch_state:Initialised" >>

Committed(log) ==
  \E i \in 1 .. Len(log) : log[i] = "xenbus_transaction_end:ok"

\* C4: a commit that returns -EAGAIN is followed by the start of a new
\* transaction (the next call is xenbus_transaction_start), and an
\* attach whose commit returned -EAGAIN k times and then succeeded has started
\* exactly k+1 transactions, written the three keys in each, switched to
\* Initialised, reported no failure and returned 0.
C4_RetryOnConflict ==
  /\ \A i \in 1 .. (Len(c_log) - 1) :
       c_log[i] = "xenbus_transaction_end:EAGAIN"
         => c_log[i + 1] \in { "xenbus_transaction_start",
                              "xenbus_transaction_start:fail" }
  /\ (c_pc = "none" /\ Committed(c_log)) =>
       /\ ret = 0
       /\ c_log = ConnectLogOk(CountEagain(c_log))
\* An attach that succeeded at its third attempt.
C4_Witness ==
  /\ c_pc = "none"
  /\ ret = 0
  /\ CountEagain(c_log) = 2
  /\ c_log = ConnectLogOk(2)
  /\ dev_state = "Initialised"
  /\ store = { "page-ref", "page-gref", "event-channel" }
  /\ irq = IRQ
  /\ bound

\* C5: every event a drain dispatches was put in its slot (stored by the
\* backend, or zeroed) after the last zeroing of the page: nothing that was in
\* the page before an oxtkbd_resume is dispatched after it.
C5_NoStaleAfterResume ==
  \A i \in 1 .. Len(d_slotgen) : d_slotgen[i] = d_gen
\* A drain has completed after a resume that destroyed undrained events.
C5_Witness ==
  /\ gen > 0
  /\ zeroed_pending > 0
  /\ DrainDone
  /\ d_gen = gen
  /\ Len(dispatched) > 0

(***************************************************************************)
(* Properties of the touch handlers (continued)                            *)
(***************************************************************************)
\* The legacy single-touch coordinates among the calls of dispatched[i].
LegacyAbs(i) ==
  SelectSeq(ops[i], LAMBDA o : o.op = "input_report_abs"
                               /\ o.code \in { "ABS_X", "ABS_Y" })

\* C11: a TOUCH_MOVE for the primary id (0) also reports its (x, y) as ABS_X
\* and ABS_Y on the absolute pointer; a TOUCH_MOVE for any other id, and every
\* TOUCH_DOWN, reports no ABS_X or ABS_Y.
C11_PrimaryLegacyAbs ==
  \A i \in 1 .. Len(dispatched) :
    LET e == dispatched[i] IN
      /\ (e.type = OXT_KBD_TYPE_TOUCH_MOVE /\ e.w4 = 0) =>
           LegacyAbs(i) =
             << Op("absolute_pointer", "input_report_abs", "ABS_X", e.w8),
                Op("absolute_pointer", "input_report_abs", "ABS_Y", e.w12) >>
      /\ ( \/ (e.type = OXT_KBD_TYPE_TOUCH_MOVE /\ e.w4 # 0)
           \/ e.type = OXT_KBD_TYPE_TOUCH_DOWN ) => LegacyAbs(i) = << >>

\* The second half of C11 alone: no TOUCH_DOWN and no TOUCH_MOVE for another
\* id than 0 reports ABS_X or ABS_Y.
NoLegacyAbsElsewhere ==
  \A i \in 1 .. Len(dispatched) :
    LET e == dispatched[i] IN
      ( \/ (e.type = OXT_KBD_TYPE_TOUCH_MOVE /\ e.w4 # 0)
        \/ e.type = OXT_KBD_TYPE_TOUCH_DOWN ) => LegacyAbs(i) = << >>

\* The slot numbers that dispatched[i] passes to input_mt_slot.
SlotsSelected(i) ==
  { ops[i][n].value : n \in { k \in 1 .. Len(ops[i]) :
                                ops[i][k].op = "input_mt_slot" } }

\* The lowest slot that is not active in m (MT_SLOTS when all are).
LowestFree(m) ==
  IF \A s \in 0 .. (MT_SLOTS - 1) : m.active[s] THEN MT_SLOTS
  ELSE CHOOSE s \in 0 .. (MT_SLOTS - 1) :
         /\ ~ m.active[s]
         /\ \A t \in 0 .. (s - 1) : m.active[t]

\* C12: every TOUCH_DOWN selects the lowest slot free at that moment, and
\* every slot number selected on the absolute pointer lies in 0 .. 9 whatever
\* the id on the wire.
C12_LowestFreeSlot ==
  (d_start = base /\ gen = 0) =>
    \A i \in 1 .. Len(dispatched) :
      /\ SlotsSelected(i) \subseteq 0 .. (MT_SLOTS - 1)
      /\ dispatched[i].type = OXT_KBD_TYPE_TOUCH_DOWN =>
           SlotsSelected(i) = { LowestFree(MtAfter(i - 1)) }

(***************************************************************************)
(* Properties of oxtkbd_backend_changed                                    *)
(***************************************************************************)
\* How many times call c occurs in log.
Count(log, c) == Cardinality({ i \in 1 .. Len(log) : log[i] = c })

\* Whether call c occurs in log before call d.
Before(log, c, d) ==
  \E i, j \in 1 .. Len(log) : i < j /\ log[i] = c /\ log[j] = d

\* C13: handling InitWait reads the backend's feature-abs-pointer and, when
\* the backend advertises it, writes request-abs-pointer before switching to
\* Connected; handling InitWait always ends with the frontend Connected.
C13_InitWaitRequestsAbs ==
  b_state = "InitWait" =>
    /\ dev_state = "Connected"
    /\ Count(b_log, "xenbus_scanf:feature-abs-pointer") = 1
    /\ b_store.feature =>
         /\ "request-abs-pointer" \in store
         /\ Before(b_log, "xenbus_printf:request-abs-pointer",
                   "xenbus_switch_state:Connected")

\* The last part of C13 alone: handling InitWait ends with the frontend
\* Connected.
InitWaitEndsConnected ==
  b_state = "InitWait" =>
    dev_state = "Connected" /\ b_log = << "xenbus_switch_state:Connected" >>

\* C14 as stated: on backend Connected the InitWait path is run once if the
\* frontend was already Connected, never more than once, and the frontend is
\* Connected afterwards.
C14_ReentersWhenConnected ==
  b_state = "Connected" =>
    /\ b_self = "Connected" =>
         Count(b_log, "xenbus_switch_state:Connected") = 1
    /\ Count(b_log, "xenbus_switch_state:Connected") <= 1
    /\ dev_state = "Connected"

\* C14 (amended): on backend Connected the InitWait path is run once, and
\* nothing else is done, if the frontend was not yet Connected; it is not run
\* if the frontend was already Connected; the frontend is Connected afterwards.
C14_EntersInitWaitUnlessConnected ==
  b_state = "Connected" =>
    /\ b_self # "Connected" => b_log = << "xenbus_switch_state:Connected" >>
    /\ b_self = "Connected" =>
         Count(b_log, "xenbus_switch_state:Connected") = 0
    /\ dev_state = "Connected"
\* The backend went to Connected while the frontend was still Initialised.
C14_Witness ==
  /\ b_state = "Connected"
  /\ b_self = "Initialised"
  /\ dev_state = "Connected"
  /\ b_log = << "xenbus_switch_state:Connected" >>

\* C15: once handled (oxtkbd_backend_changed has returned), every backend
\* Connected notification has set the maxima of ABS_X
\* and ABS_Y of the absolute pointer to the width and height the backend
\* publishes, keeps the maximum whose value is absent, and changes no other
\* maximum.
C15_BoundsFollowBackend ==
  (b_state = "Connected" /\ b_pc = "none") =>
    absmax =
      [b_abs EXCEPT
         !["absolute_pointer"]["ABS_X"] =
            IF Len(b_store.width) > 0 THEN b_store.width[1] ELSE @,
         !["absolute_pointer"]["ABS_Y"] =
            IF Len(b_store.height) > 0 THEN b_store.height[1] ELSE @]

\* What the code does instead: no maximum of the keyboard or of the absolute
\* pointer ever changes.
AbsolutePointerBoundsFixed ==
  /\ absmax["absolute_pointer"] = AbsInit["absolute_pointer"]
  /\ absmax["kbd"] = AbsInit["kbd"]

\* C16: handling backend Closing, or Closed while the frontend is not Closed,
\* unbinds the handler, ends the grant (irq and gref unset) and leaves the
\* frontend Closed; handling backend Closed while the frontend is Closed
\* changes nothing.
C16_ClosingTearsDown ==
  /\ ( \/ b_state = "Closing"
       \/ (b_state = "Closed" /\ b_self # "Closed") ) =>
       /\ dev_state = "Closed"
       /\ irq = 0 - 1
       /\ gref = 0 - 1
       /\ ~ bound
       /\ ~ granted
  /\ (b_state = "Closed" /\ b_self = "Closed") =>
       dev_state = "Closed" /\ b_log = << >>

\* The part of C16 that holds: the frontend declares itself Closed.
ClosingEndsClosed ==
  b_state \in { "Closing", "Closed" } => dev_state = "Closed"

(***************************************************************************)
(* Properties of the failure paths and of teardown                         *)
(***************************************************************************)
\* The entries of c_log that record a failed call.
FailCalls ==
  { "gnttab_grant_foreign_access:fail", "xenbus_alloc_evtchn:fail",
    "bind_evtchn_to_irqhandler:fail", "xenbus_transaction_start:fail",
    "xenbus_transaction_end:fail" }
    \cup { "xenbus_printf:" \o TxnKeys[n] \o ":fail" : n \in 1 .. Len(TxnKeys) }

\* The calls that release a resource.
ReleaseCalls ==
  { "xenbus_transaction_end:abort", "unbind_from_irqhandler",
    "xenbus_free_evtchn", "gnttab_end_foreign_access" }

\* The releases owed after the calls in log, latest acquisition first.  A
\* transaction is open from its start to its xenbus_transaction_end, whatever
\* that returns.
ReleasesOwed(log) ==
  (IF Count(log, "xenbus_transaction_start")
        > Count(log, "xenbus_transaction_end:EAGAIN")
            + Count(log, "xenbus_transaction_end:ok")
            + Count(log, "xenbus_transaction_end:fail")
   THEN << "xenbus_transaction_end:abort" >> ELSE << >>)
  \o (IF Count(log, "bind_evtchn_to_irqhandler") > 0
      THEN << "unbind_from_irqhandler" >> ELSE << >>)
  \o (IF Count(log, "xenbus_alloc_evtchn") > 0
      THEN << "xenbus_free_evtchn" >> ELSE << >>)
  \o (IF Count(log, "gnttab_grant_foreign_access") > 0
      THEN << "gnttab_end_foreign_access" >> ELSE << >>)

\* oxtkbd_connect_backend has run and returned an error (an oxtkbd_probe that
\* fails earlier has not called it).
ConnectFailed ==
  /\ c_pc \in { "none", "probe_error" }
  /\ ret < 0
  /\ c_log # << >>

\* C17: when oxtkbd_connect_backend fails, one call has failed; after it the
\* code makes exactly the releases owed for what it had acquired, in reverse
\* order of acquisition, each once, and acquires nothing more; irq and gref
\* are -1, the frontend has not switched to Initialised, and the error is
\* returned.
C17_FailureUnwinds ==
  ConnectFailed =>
    /\ \E f \in 1 .. Len(c_log) :
         /\ c_log[f] \in FailCalls
         /\ \A i \in 1 .. (f - 1) : c_log[i] \notin FailCalls \cup ReleaseCalls
         /\ SelectSeq(SubSeq(c_log, f + 1, Len(c_log)),
                      LAMBDA c : c # "xenbus_dev_fatal")
              = ReleasesOwed(SubSeq(c_log, 1, f))
    /\ irq = 0 - 1
    /\ gref = 0 - 1
    /\ ~ bound /\ ~ granted /\ ~ evtchn /\ ~ txn
    /\ Count(c_log, "xenbus_switch_state:Initialised") = 0
    /\ ret = 0 - EFAIL
\* The write of event-channel failed in the second transaction attempt of a
\* resume: all four releases were owed.
C17_Witness ==
  /\ ConnectFailed
  /\ c_pc = "none"
  /\ caller = "resume"
  /\ CountEagain(c_log) = 1
  /\ Count(c_log, "xenbus_printf:event-channel:fail") = 1
  /\ SubSeq(c_log, Len(c_log) - 4, Len(c_log)) =
       << "xenbus_transaction_end:abort", "xenbus_dev_fatal",
          "unbind_from_irqhandler", "xenbus_free_evtchn",
          "gnttab_end_foreign_access" >>

\* In log, every call u comes before every call r.
AllBefore(log, u, r) ==
  \A i, j \in 1 .. Len(log) : (log[i] = u /\ log[j] = r) => i < j

\* C18: every teardown unbinds the handler before it ends the grant, and
\* oxtkbd_remove frees the page only after the unbind: the handler is bound
\* only while the page is granted, and once the page is freed the handler is
\* neither bound nor running.
C18_UnbindBeforeRelease ==
  /\ AllBefore(t_log, "unbind_from_irqhandler", "gnttab_end_foreign_access")
  /\ AllBefore(t_log, "unbind_from_irqhandler", "free_page")
  /\ AllBefore(c_log, "unbind_from_irqhandler", "gnttab_end_foreign_access")
  /\ bound => (granted /\ ~ page_freed)
  /\ page_freed => pc = "idle"
\* oxtkbd_remove has torn down a connected device that had drained events.
C18_Witness ==
  /\ page_freed
  /\ life = "removed"
  /\ SubSeq(t_log, 1, 2) =
       << "unbind_from_irqhandler", "gnttab_end_foreign_access" >>
  /\ t_log[Len(t_log) - 1] = "free_page"
  /\ Len(dispatched) > 0
  /\ ~ bound
  /\ irq = 0 - 1
  /\ gref = 0 - 1

(***************************************************************************)
(* Properties of the drain loop                                            *)
(***************************************************************************)
\* C19: a drain that finds consumer cursor c and producer cursor p, also when
\* p is below c because the producer cursor wrapped, visits the cursors c,
\* c+1, ... modulo 2^32, reads each from slot cursor mod 51, dispatches
\* (p - c) mod 2^32 events and publishes in_cons = p.
C19_DrainAcrossWrap ==
  /\ pc = "loop" =>
       /\ cons = Add32(d_start, Len(dispatched))
       /\ Len(dispatched) <= DrainCount
  /\ QuietDrainDone =>
       /\ Len(dispatched) = DrainCount
       /\ \A i \in 1 .. Len(dispatched) :
            dispatched[i] = ring[OXT_KBD_IN_RING_REF(Add32(d_start, i - 1))]
       /\ in_cons = prod
\* A drain from c = 0xFFFFFFFE to p = 1.
C19_Witness ==
  /\ QuietDrainDone
  /\ d_start = 0 - 2
  /\ prod = 1
  /\ ULess(prod, d_start)
  /\ Len(dispatched) = 3
  /\ in_cons = 1

\* C20: every drain terminates: it makes at most as many dispatches as events
\* were available when it began and at most ring-length many, in its loop it
\* can always take its next step, and it returns.
C20_DrainTerminates ==
  /\ [](Len(dispatched) <= DrainCount)
  /\ [](Len(dispatched) <= OXT_KBD_IN_RING_LEN)
  /\ [](pc = "loop" => ENABLED (HandlerLoop \/ HandlerExit))
  /\ (pc = "loop") ~> (pc = "idle")

\* What holds of a drain: it makes (p - c) mod 2^32 iterations, p and c being
\* the cursors it read when it began, which may be more than the ring length;
\* in the loop it can always take its next step; and it returns after exactly
\* that many iterations unless it is killed earlier, at a KEY event whose
\* keycode lies past the keybit bitmaps or at a slot whose tag is past the
\* switch's table.
DrainEnds ==
  /\ [](pc = "loop" =>
          /\ Len(dispatched) + Dist32(cons, prod) = DrainCount
          /\ ENABLED (HandlerLoop \/ HandlerExit))
  /\ [](DrainDone => Len(dispatched) = DrainCount)
  /\ [](pc = "fault" =>
          /\ Len(dispatched) < DrainCount
          /\ \/ /\ ring[OXT_KBD_IN_RING_REF(cons)].type = OXT_KBD_TYPE_KEY
                /\ PastKeybit(KeyCode(ring[OXT_KBD_IN_RING_REF(cons)]))
             \/ ring[OXT_KBD_IN_RING_REF(cons)].type \notin SwitchTable)
  /\ (pc = "loop") ~> (pc = "idle" \/ pc = "fault")

(***************************************************************************)
(* Properties of a drain that races with the backend                       *)
(***************************************************************************)
\* The order of the steps of a drain: the producer cursor is read once, before
\* any slot; the slots of the captured range c .. p-1 are all processed before
\* the consumer cursor is written; the consumer cursor is written once, to p,
\* and then the backend is notified once.  While the loop runs the backend
\* still sees in_cons = c, and the drain reads no cursor at or past p.
DrainSteps ==
  /\ [](pc = "loop" =>
          /\ in_cons = d_start
          /\ cons = Add32(d_start, Len(dispatched))
          /\ Len(dispatched) <= DrainCount
          /\ notified = << >>)
  /\ [](pc = "notify" =>
          /\ in_cons = prod
          /\ Len(dispatched) = DrainCount
          /\ notified = << >>)
  /\ [](Len(notified) <= 1)
  /\ [][ /\ pc # "idle" => prod' = prod
         /\ in_cons' # in_cons =>
              /\ pc = "loop" /\ pc' = "notify"
              /\ Len(dispatched) = DrainCount
              /\ in_cons' = prod
         /\ Len(notified') > Len(notified) =>
              /\ pc = "notify" /\ pc' = "idle"
              /\ in_cons = prod ]_vars

\* Whether the drain in progress has yet to read slot s: s is the slot of a
\* cursor from cons up to the captured prod.
YetToRead(s) ==
  /\ pc = "loop"
  /\ \E k \in 0 .. (Dist32(cons, prod) - 1) :
       OXT_KBD_IN_RING_REF(Add32(cons, k)) = s

\* Whether the backend sees the slot of its cursor as free: fewer events than
\* the ring has slots lie between page->in_cons and page->in_prod.
SeenFree == Dist32(in_cons, in_prod) < OXT_KBD_IN_RING_LEN

\* The backend stores into a slot it sees as free only when the drain has not
\* yet to read that slot.
FreeSlotsAreRead ==
  [][ (in_prod' # in_prod /\ SeenFree)
        => ~ YetToRead(OXT_KBD_IN_RING_REF(in_prod)) ]_vars

\* C21: within a drain the producer cursor is read once, before any slot; the
\* slots of the captured range are all processed before the consumer cursor
\* is written; the consumer cursor is written once per drain, before the one
\* notification.  So, in every interleaving with the backend, no slot the
\* drain has yet to read looks free to the backend, and the drain reads no
\* cursor at or past the captured producer cursor.
C21_DrainOrder == DrainSteps /\ FreeSlotsAreRead

\* The part of C21 that holds: the order of the steps, and the slots while the
\* cursors stay away from the 32-bit wrap.
DrainOrderAwayFromWrap ==
  /\ DrainSteps
  /\ [][ (in_prod' # in_prod /\ SeenFree /\ base = 0)
           => ~ YetToRead(OXT_KBD_IN_RING_REF(in_prod)) ]_vars

(***************************************************************************)
(* Properties of the cursors of the shared page                            *)
(***************************************************************************)
\* Whether the __u32 cursor b is a or lies ahead of it, modulo 2^32 (by less
\* than 2^31).
NotDecreased(a, b) ==
  IF (a >= 0) = (b >= 0) THEN b >= a
  ELSE IF a < 0 THEN b <= a + 2147483647
  ELSE b + 2147483647 < a - 1

\* C22: only the backend changes page->in_prod, no step of the frontend
\* (drain, attach, resume, teardown) does; and page->in_cons never goes back,
\* modulo 2^32, as long as the page lives.
C22_SingleWriter ==
  [][ /\ in_prod' # in_prod => ProduceCtl
      /\ ~ page_freed' => NotDecreased(in_cons, in_cons') ]_vars

\* The part of C22 that holds: every step but oxtkbd_resume's memset leaves
\* page->in_prod to the backend and moves page->in_cons forward only.
SingleWriterButResume ==
  [][ gen' = gen =>
        /\ in_prod' # in_prod => ProduceCtl
        /\ NotDecreased(in_cons, in_cons') ]_vars

\* oxtkbd_resume stores 0 in both cursors.
ResumeResetsCursors == [][ gen' # gen => in_prod' = 0 /\ in_cons' = 0 ]_vars

(***************************************************************************)
(* Properties of the notification handle                                   *)
(***************************************************************************)
\* C23: every "ready for more" notification of a drain goes through a bound
\* channel: the irq passed to notify_remote_via_irq is never the unset
\* handle -1, however attach or resume interleave with the drain.
C23_NotifyThroughBoundIrq ==
  \A i \in 1 .. Len(notified) : notified[i] >= 0

\* The part of C23 that holds: a drain notifies through -1 only between
\* bind_evtchn_to_irqhandler and the store of its result in info->irq.
NotifyBoundOutsideWindow ==
  [][ Len(notified') > Len(notified) /\ c_pc # "set_irq" => irq >= 0 ]_vars

\* What C24 requires of a state: every event the last drain dispatched is the
\* one the backend stored at the cursor the drain was at, none twice; once the
\* drain has left its loop page->in_cons is the producer cursor it captured;
\* and every event stored at a cursor from page->in_cons up to page->in_prod,
\* those stored during the drain among them, is still in its slot.
RecordsKept ==
  /\ \A i \in 1 .. Len(dispatched) :
       dispatched[i] = WrittenAt(Add32(d_start, i - 1))
  /\ \A i, j \in 1 .. Len(dispatched) : i # j => dispatched[i] # dispatched[j]
  /\ (pc # "loop" /\ dispatched # << >>) => in_cons = prod
  /\ \A n \in 0 .. (Dist32(in_cons, in_prod) - 1) :
       ring[OXT_KBD_IN_RING_REF(Add32(in_cons, n))] = WrittenAt(Add32(in_cons, n))

\* C24: with a backend that stores no more events than the ring has slots,
\* in every interleaving of its stores with a drain, no event is skipped and
\* none is dispatched twice: the drain publishes the cursor it captured, and
\* the events between page->in_cons and page->in_prod are still undelivered.
C24_NoRecordSkipped == Len(wrote) <= OXT_KBD_IN_RING_LEN => RecordsKept

\* The part of C24 that holds: the same while the cursors stay away from the
\* 32-bit wrap.
NoRecordSkippedAwayFromWrap ==
  (Len(wrote) <= OXT_KBD_IN_RING_LEN /\ base = 0) => RecordsKept

(***************************************************************************)
(* Liveness of the drain                                                   *)
(***************************************************************************)
\* Whether the n-th event the backend stored is stored and not yet consumed:
\* page->in_cons has not passed its cursor.
Outstanding(n) ==
  /\ Len(wrote) >= n
  /\ Dist32(base, in_cons) < n

\* Whether the n-th event the backend stored is among those the last drain
\* dispatched.
Delivered(n) ==
  /\ Len(wrote) >= n
  /\ \E i \in 1 .. Len(dispatched) : dispatched[i] = wrote[n]

\* C25: with the channel bound, the backend notifying after each store and a
\* notification raised during a drain causing one more drain, every event the
\* backend stores is eventually dispatched, and page->in_cons eventually
\* equals page->in_prod.
C25_EveryRecordDispatched ==
  /\ \A n \in 1 .. MaxLive : Outstanding(n) ~> Delivered(n)
  /\ (in_prod # in_cons) ~> (in_cons = in_prod)

\* The part of C25 that holds: the drains catch up with the producer cursor,
\* and no notification stays pending.
CursorsCatchUp ==
  /\ (in_prod # in_cons) ~> (in_cons = in_prod)
  /\ (owed \/ pending) ~> (~ owed /\ ~ pending /\ pc = "idle")
  /\ <>[](in_cons = in_prod /\ pc = "idle")

\* The same for the events, while the cursors stay away from the 32-bit wrap.
EveryRecordDispatchedAwayFromWrap ==
  \A n \in 1 .. MaxLive : (base = 0 /\ Outstanding(n)) ~> Delivered(n)
====
